---------------------------- MODULE Spec2Model ----------------------------
(***************************************************************************)
(* SAJ eSolar Cloud integration: the config flow that creates a config     *)
(* entry, and the polling coordinator built from that entry.               *)
(*                                                                         *)
(* The code is asyncio: between two awaits a coroutine runs atomically.    *)
(* Every action below is one such slice: it consumes the response of the   *)
(* awaited HTTP request and runs the code up to the next awaited request   *)
(* (or to the return / the raise that ends the handler).                   *)
(***************************************************************************)
EXTENDS Integers, Sequences, FiniteSets, TLC

(***************************************************************************)
(* Bounds of the model.                                                    *)
(***************************************************************************)
\* Update ticks the host timer fires.
MaxTicks == 2
\* Submissions of the config flow's user form.
MaxSubmits == 2

(***************************************************************************)
(* Program constants.                                                      *)
(***************************************************************************)
UPDATE_INTERVAL == 300
NonceLen == 32

\* Python's None and Some(x): an optional value is a sequence of at most one value.
None == <<>>

Some(x) == <<x>>

REGIONS ==
  [eu |-> "https://eop.saj-electric.com/dev-api/api/v1",
   in |-> "https://iop.saj-electric.com/dev-api/api/v1",
   cn |-> "https://op.saj-electric.cn/dev-api/api/v1"]

ENDPOINTS ==
  [login            |-> "/sys/login",
   plant_list       |-> "/monitor/plant/getEndUserPlantList",
   plant_detail     |-> "/monitor/plant/getOnePlantInfo",
   device_list      |-> "/monitor/device/getDeviceList",
   battery_list     |-> "/monitor/battery/getBatteryList",
   battery_info     |-> "/monitor/battery/getOneDeviceBatteryInfo",
   plant_statistics |-> "/monitor/home/getPlantStatisticsData",
   energy_flow      |-> "/monitor/home/getDeviceEneryFlowData"]

(***************************************************************************)
(* The environment's inputs: what the user types, what the clock and the   *)
(* random generator give, what the vendor answers.                         *)
(***************************************************************************)
\* What the user may submit in the user form (the schema admits REGIONS' keys).
UserInputs ==
  { [username |-> "u1", password |-> "pw1", region |-> "eu"],
    [username |-> "u2", password |-> "pw2", region |-> "cn"] }

Times == {1700000000}
Dates == {"2024-01-01"}
NonceSeeds == {"a", "b"}

\* Python dicts are functions on strings; d1 | d2 keeps d2's value on a clash.
EmptyDict == [k \in {} |-> 0]

Merge(d1, d2) ==
  [k \in DOMAIN d1 \cup DOMAIN d2 |-> IF k \in DOMAIN d2 THEN d2[k] ELSE d1[k]]

\* dict.get(key, default)
Get(d, k, default) == IF k \in DOMAIN d THEN d[k] ELSE default

(***************************************************************************)
(* elekeeper.py (imported at coordinator.py:17): its three functions are   *)
(* modelled from the specification's description of the signer.            *)
(***************************************************************************)
\* "a timestamp+nonce+shared-secret signing function": the signature is a
\* digest of the parameters, modelled as the pair of a tag and its preimage.
Signature(d) == <<"signature", d>>

calc_signature(d) ==
  Merge(d, [signParams |-> DOMAIN d, signature |-> Signature(d)])

\* A key of n characters.
generatkey(n, seed) == [i \in 1..n |-> seed]

encrypt(password) == <<"encrypted", password>>

(***************************************************************************)
(* State.                                                                  *)
(***************************************************************************)
VARIABLES
  \* SAJeSolarConfigFlow
  flow_step,        \* the step whose form is shown, or the await the step is in
  flow_username,    \* self._username
  flow_password,    \* self._password
  flow_region,      \* self._region
  flow_plants,      \* self._plants
  flow_errors,      \* errors["base"] of the form last shown
  entries,          \* the config entries of the domain, oldest first
  submits,          \* submissions of the user form so far
  \* SAJeSolarDataUpdateCoordinator (the flow's throw-away one, then the entry's)
  username, password, region, base_url, monitored_plants, auth_token,
  update_interval,
  data,             \* DataUpdateCoordinator.data: what the entities read
  \* _async_update_data's frame
  pc,               \* <<method, endpoint awaited>>, or <<"idle">>
  plant_data,       \* the plant list response
  plants_data,      \* the snapshot being built
  idx,              \* position of plant_uid in monitored_plants
  parts,            \* the current plant's results so far
  \* the HTTP session
  inflight,         \* requests sent and not yet answered, oldest first
  \* history
  tick,             \* update ticks started so far
  log,              \* the requests of the current tick (or flow step), in order
  raised,           \* the exception raised inside the last handler run
  outcome,          \* how the last tick ended
  result,           \* what the last successful tick returned
  listed,           \* the uids of the current tick's plant list
  stale,            \* logins sent when the last HTTP 401 was received
  served,           \* the response received last, and the request it answers
  \* the sensor platform
  entity,           \* the sensor entity followed, or None
  state             \* what the entity reported last, or None

flow_vars == <<flow_step, flow_username, flow_password, flow_region, flow_plants,
               flow_errors, entries, submits>>

coord_vars == <<username, password, region, base_url, monitored_plants,
                auth_token, update_interval, data>>

frame_vars == <<pc, plant_data, plants_data, idx, parts>>

hist_vars == <<tick, log, raised, outcome, result, listed, stale, served>>

sensor_vars == <<entity, state>>

vars == <<flow_vars, coord_vars, frame_vars, inflight, hist_vars, sensor_vars>>

(***************************************************************************)
(* The requests, as the coordinator's methods build them.  e is what the   *)
(* clock and the key generator give when the request is built, id the      *)
(* request's number in the log, self the coordinator's fields it reads.    *)
(***************************************************************************)
Env == [t : Times, d : Dates, seed : NonceSeeds]

common_params(e) ==
  [appProjectName |-> "elekeeper",
   clientDate     |-> e.d,
   lang           |-> "en",
   timeStamp      |-> e.t,
   random         |-> generatkey(NonceLen, e.seed),
   clientId       |-> "esolar-monitor-admin"]

Url(self, endpoint) == <<self.base_url, ENDPOINTS[endpoint]>>

\* A request whose parameters skip the signer.
Unsigned(d) == d

\* signed = calc_signature(data)
Signed(d) == calc_signature(d)

\* headers={'Authorization': self.auth_token}
Authorization(self) == [Authorization |-> self.auth_token]

Get_request(self, id, endpoint, plant, d) ==
  [id       |-> id,
   method   |-> "GET",
   endpoint |-> endpoint,
   url      |-> Url(self, endpoint),
   plant    |-> plant,
   params   |-> Signed(d),
   headers  |-> Authorization(self)]

login_request(self, id, e) ==
  LET data_to_sign == common_params(e)
      login_data   == [username   |-> self.username,
                       password   |-> encrypt(self.password),
                       rememberMe |-> "false",
                       loginType  |-> 1]
  IN [id       |-> id,
      method   |-> "POST",
      endpoint |-> "login",
      url      |-> Url(self, "login"),
      plant    |-> "",
      params   |-> Merge(Signed(data_to_sign), login_data),
      headers  |-> EmptyDict]

plant_list_request(self, id, e) ==
  Get_request(self, id, "plant_list", "",
              Merge([pageNo |-> 1, pageSize |-> 500], common_params(e)))

plant_details_request(self, id, plant_uid, e) ==
  Get_request(self, id, "plant_detail", plant_uid,
              Merge([plantUid |-> plant_uid], common_params(e)))

device_list_request(self, id, plant_uid, e) ==
  Get_request(self, id, "device_list", plant_uid,
              Merge([plantUid |-> plant_uid, pageSize |-> 100, pageNo |-> 1,
                     searchOfficeIdArr |-> "1"], common_params(e)))

battery_list_request(self, id, plant_uid, e) ==
  Get_request(self, id, "battery_list", plant_uid,
              Merge([plantUid |-> plant_uid, pageSize |-> 100, pageNo |-> 1,
                     searchOfficeIdArr |-> "1"], common_params(e)))

plant_statistics_request(self, id, plant_uid, device_sn, e) ==
  Get_request(self, id, "plant_statistics", plant_uid,
              Merge([plantUid |-> plant_uid, deviceSn |-> device_sn],
                    common_params(e)))

energy_flow_request(self, id, plant_uid, device_sn, e) ==
  Get_request(self, id, "energy_flow", plant_uid,
              Merge([plantUid |-> plant_uid, deviceSn |-> device_sn],
                    common_params(e)))

battery_info_request(self, id, plant_uid, device_sn, e) ==
  Get_request(self, id, "battery_info", plant_uid,
              Merge([deviceSn |-> device_sn], common_params(e)))

\* The request a method sends to an endpoint.
request_to(endpoint, self, id, plant_uid, device_sn, e) ==
  CASE endpoint = "plant_detail"     -> plant_details_request(self, id, plant_uid, e)
    [] endpoint = "device_list"      -> device_list_request(self, id, plant_uid, e)
    [] endpoint = "battery_list"     -> battery_list_request(self, id, plant_uid, e)
    [] endpoint = "plant_statistics" ->
         plant_statistics_request(self, id, plant_uid, device_sn, e)
    [] endpoint = "energy_flow"      ->
         energy_flow_request(self, id, plant_uid, device_sn, e)
    [] endpoint = "battery_info"     ->
         battery_info_request(self, id, plant_uid, device_sn, e)

\* What the log keeps of a request.
Entry(req) ==
  [id |-> req.id, endpoint |-> req.endpoint, plant |-> req.plant,
   token |-> Get(req.headers, "Authorization", None)]

(***************************************************************************)
(* The vendor's answers.                                                   *)
(***************************************************************************)
ClientError == [error |-> "ClientError"]

Failed(resp) == "error" \in DOMAIN resp

ErrorResponses == {ClientError, [status |-> 401], [status |-> 500]}

Ok(json) == [status |-> 200, json |-> json]

\* The login answers: a token is the server's n-th.
LoginResponses(n) ==
  ErrorResponses \cup
  { Ok([errCode |-> 0, data |-> [tokenHead |-> <<"Bearer ">>, token |-> <<n>>]]),
    Ok([data |-> [tokenHead |-> <<"Bearer ">>, token |-> <<n>>]]),
    Ok([errCode |-> 10001, errMsg |-> "rejected"]),
    Ok([errCode |-> 0]),
    Ok([errCode |-> 0, data |-> EmptyDict]),
    Ok([errCode |-> 0, data |-> [token |-> <<n>>]]) }

Plant(uid, t) == [plantUid |-> uid, plantName |-> uid, fetched |-> t]

\* The plant lists the vendor may return in tick t (0: the config flow).
PlantLists(t) ==
  { <<>>, <<Plant("p1", t)>>, <<Plant("p2", t)>>,
    <<Plant("p1", t), Plant("p2", t)>> }

PlantListResponses(t) ==
  ErrorResponses \cup {Ok(EmptyDict)} \cup
  {Ok([data |-> [list |-> l]]) : l \in PlantLists(t)}

Device(sn) == [deviceSn |-> sn]

DeviceLists ==
  { <<>>, <<Device("SN1")>>, <<Device("SN2"), Device("SN1")>>, <<Device("")>> }

DeviceListResponses(t) ==
  ErrorResponses \cup {Ok([fetched |-> t])} \cup
  {Ok([data |-> [list |-> l], fetched |-> t]) : l \in DeviceLists}

\* The other endpoints: the body's content plays no part in the update cycle.
BodyResponses(endpoint, plant_uid, t) ==
  ErrorResponses \cup
  {Ok([endpoint |-> endpoint, plantUid |-> plant_uid, fetched |-> t])}

(***************************************************************************)
(* SAJeSolarDataUpdateCoordinator.                                         *)
(***************************************************************************)
Idle == <<"idle">>

\* The coordinator object, as the request builders read it.
Self == [username |-> username, password |-> password, base_url |-> base_url,
         auth_token |-> auth_token]

\* The request the running coroutine awaits: the one it sent last.
Awaited == inflight[Len(inflight)]

\* A coroutine that goes on without awaiting the response leaves the request pending.
NotAwaited == inflight

\* "async with self.session.get(...) as resp": the coroutine goes on only when
\* the response has arrived; the request is then no longer in flight.
Answered == SubSeq(inflight, 1, Len(inflight) - 1)

\* The logins sent so far: the vendor's token for the n-th login is token n.
logins == submits + tick

\* The awaited request is answered.  An HTTP 401 tells that the tokens of the
\* logins sent so far are no longer good.
Served(resp) ==
  /\ stale' = IF ~Failed(resp) /\ resp.status = 401 THEN logins ELSE stale
  /\ served' = Some([tick |-> tick, id |-> Awaited.id,
                     endpoint |-> Awaited.endpoint, resp |-> resp])

\* _authenticate, from the response on: the exception it raises, or "none".
authenticate_raises(resp) ==
  IF Failed(resp) THEN "ClientError"
  ELSE IF resp.status = 401 THEN "ConfigEntryAuthFailed"
  ELSE IF resp.status # 200 THEN "UpdateFailed"
  ELSE IF "errCode" \in DOMAIN resp.json /\ resp.json.errCode # 0
       THEN "ConfigEntryAuthFailed"
  ELSE IF "data" \in DOMAIN resp.json /\ "token" \in DOMAIN resp.json.data
       THEN IF "tokenHead" \in DOMAIN resp.json.data THEN "none" ELSE "KeyError"
  ELSE "UpdateFailed"

\* A login whose token is stored only while none is held.
authenticate_token_if_none(resp) ==
  IF auth_token # None THEN auth_token
  ELSE resp.json.data.tokenHead \o resp.json.data.token

\* self.auth_token = response_data['data']['tokenHead'] + response_data['data']['token']
authenticate_token(resp) == resp.json.data.tokenHead \o resp.json.data.token

\* A _get_* method, from the response on: the exception it raises, or "none".
get_raises(resp) ==
  IF Failed(resp) THEN "ClientError"
  ELSE IF resp.status # 200 THEN "UpdateFailed"
  ELSE "none"

\* Except clauses that let an authentication failure through.
except_clauses_reraising_auth_failed(exc) ==
  IF exc = "ConfigEntryAuthFailed" THEN exc ELSE "UpdateFailed"

\* The except clauses of _async_update_data: what escapes for what was raised.
except_clauses(exc) ==
  IF exc = "ClientError" THEN "UpdateFailed"   \* except aiohttp.ClientError
  ELSE "UpdateFailed"                          \* except Exception

\* plant_data.get("data", {}).get("list", [])
plant_list_of(json) == Get(Get(json, "data", EmptyDict), "list", <<>>)

\* The uids of a plant list (the selection form's plant_options).
RECURSIVE plant_options(_)
plant_options(plants) ==
  IF plants = <<>> THEN {} ELSE {plants[1].plantUid} \cup plant_options(Tail(plants))

\* The inner loop of _async_update_data: the first plant of the list with this uid.
RECURSIVE find_plant(_, _, _)
find_plant(list, plant_uid, k) ==
  IF k > Len(list) THEN None
  ELSE IF list[k].plantUid = plant_uid THEN Some(list[k])
  ELSE find_plant(list, plant_uid, k + 1)

\* A loop that ends at the first plant that is not in the list.
RECURSIVE next_plant_or_break(_, _, _)
next_plant_or_break(plants, list, i) ==
  IF i > Len(plants) THEN i
  ELSE IF find_plant(list, plants[i], 1) # None THEN i
  ELSE Len(plants) + 1

\* The outer loop up to the next plant it fetches: plants that are not in the
\* list are skipped ("continue").  Len + 1: the loop is over.
RECURSIVE next_plant(_, _, _)
next_plant(plants, list, i) ==
  IF i > Len(plants) THEN i
  ELSE IF find_plant(list, plants[i], 1) # None THEN i
  ELSE next_plant(plants, list, i + 1)

\* A lookup that takes the device the list names last.
last_device_sn(json) ==
  LET list == Get(Get(json, "data", EmptyDict), "list", <<>>)
  IN IF list # <<>> THEN Some(list[Len(list)].deviceSn) ELSE None

\* The device_sn lookup of the three dependent methods: the first device's
\* deviceSn, or None.
first_device_sn(json) ==
  LET list == Get(Get(json, "data", EmptyDict), "list", <<>>)
  IN IF list # <<>> THEN Some(list[1].deviceSn) ELSE None

\* A lookup whose result is not checked.
no_device_unchecked(device_sn) == FALSE

\* "if not device_sn"
no_device(device_sn) == device_sn = None \/ device_sn = Some("")

Send(req) ==
  /\ inflight' = Append(Answered, req)
  /\ log' = Append(log, Entry(req))

\* The snapshot a failed tick leaves to the entities: the one it found.
publish_on_failure(built) == Some(built)

\* A failed tick leaves coordinator.data as it was.
keep_on_failure(built) == data

\* An exception leaves _async_update_data: the tick is over.
Raise(exc) ==
  /\ raised' = exc
  /\ outcome' = except_clauses(exc)
  /\ pc' = Idle
  /\ plant_data' = EmptyDict
  /\ plants_data' = EmptyDict
  /\ idx' = 0
  /\ parts' = EmptyDict
  /\ inflight' = Answered
  /\ data' = keep_on_failure(plants_data)
  /\ UNCHANGED <<log, result, tick, listed>>

\* "return plants_data": the host stores the returned snapshot as coordinator.data.
Return(snapshot) ==
  /\ raised' = "none"
  /\ outcome' = "ok"
  /\ pc' = Idle
  /\ plant_data' = EmptyDict
  /\ plants_data' = EmptyDict
  /\ idx' = 0
  /\ parts' = EmptyDict
  /\ inflight' = Answered
  /\ data' = Some(snapshot)
  /\ result' = Some(snapshot)
  /\ UNCHANGED <<log, tick>>

\* The head of the loop body, reached with the plant list and the snapshot so
\* far: fetch the next listed plant's details, or return.
ForPlant(list_json, snapshot, from, e) ==
  LET list == plant_list_of(list_json)
      i    == next_plant(monitored_plants, list, from)
  IN IF i > Len(monitored_plants)
     THEN Return(snapshot)
     ELSE /\ idx' = i
          /\ parts' = [plant_info |-> find_plant(list, monitored_plants[i], 1)[1]]
          /\ plants_data' = snapshot
          /\ plant_data' = list_json
          /\ pc' = <<"_get_plant_details_for_plant", "plant_detail">>
          /\ Send(plant_details_request(Self, Len(log) + 1, monitored_plants[i], e))
          /\ UNCHANGED <<raised, outcome, result, tick, data>>

\* A tick that logs in only when the coordinator holds no token.
async_update_data_reusing_token ==
  /\ flow_step = "none"
  /\ pc = Idle
  /\ tick < MaxTicks
  /\ \E e \in Env :
       LET req == IF auth_token = None THEN login_request(Self, 1, e)
                  ELSE plant_list_request(Self, 1, e)
       IN /\ inflight' = Append(inflight, req)
          /\ log' = <<Entry(req)>>
  /\ tick' = tick + 1
  /\ pc' = IF auth_token = None THEN <<"_authenticate", "login">>
           ELSE <<"_get_plant_list", "plant_list">>
  /\ raised' = "none"
  /\ outcome' = "running"
  /\ listed' = {}
  /\ UNCHANGED <<flow_vars, coord_vars, plant_data, plants_data, idx, parts,
                 result, stale, served, sensor_vars>>

\* A tick that doubles the polling interval after a failed tick.
async_update_data_with_backoff ==
  /\ flow_step = "none"
  /\ pc = Idle
  /\ tick < MaxTicks
  /\ \E e \in Env :
       LET req == login_request(Self, 1, e)
       IN /\ inflight' = Append(inflight, req)
          /\ log' = <<Entry(req)>>
  /\ tick' = tick + 1
  /\ pc' = <<"_authenticate", "login">>
  /\ raised' = "none"
  /\ outcome' = "running"
  /\ listed' = {}
  /\ update_interval' = IF outcome = "UpdateFailed" THEN 2 * update_interval
                        ELSE update_interval
  /\ UNCHANGED <<flow_vars, username, password, region, base_url,
                 monitored_plants, auth_token, data, plant_data, plants_data,
                 idx, parts, result, stale, served, sensor_vars>>

\* The host's timer fires _async_update_data: it runs up to the login's await.
async_update_data ==
  /\ flow_step = "none"
  /\ pc = Idle
  /\ tick < MaxTicks
  /\ \E e \in Env :
       LET req == login_request(Self, 1, e)
       IN /\ inflight' = Append(inflight, req)
          /\ log' = <<Entry(req)>>
  /\ tick' = tick + 1
  /\ pc' = <<"_authenticate", "login">>
  /\ raised' = "none"
  /\ outcome' = "running"
  /\ listed' = {}
  /\ UNCHANGED <<flow_vars, coord_vars, plant_data, plants_data, idx, parts,
                 result, stale, served, sensor_vars>>

\* A login that drops the token it holds when it fails.
authenticate_clearing_token ==
  /\ pc = <<"_authenticate", "login">>
  /\ \E resp \in LoginResponses(logins), e \in Env :
       /\ Served(resp)
       /\ IF authenticate_raises(resp) # "none"
          THEN /\ Raise(authenticate_raises(resp))
               /\ auth_token' = None
          ELSE /\ auth_token' = authenticate_token(resp)
               /\ pc' = <<"_get_plant_list", "plant_list">>
               /\ Send(plant_list_request(
                         [Self EXCEPT !.auth_token = authenticate_token(resp)],
                         Len(log) + 1, e))
               /\ UNCHANGED <<plant_data, plants_data, idx, parts, raised,
                              outcome, result, tick, data, listed>>
  /\ UNCHANGED <<flow_vars, username, password, region, base_url,
                 monitored_plants, update_interval, sensor_vars>>

\* The login's response arrives: _authenticate ends, _get_plant_list sends.
authenticate ==
  /\ pc = <<"_authenticate", "login">>
  /\ \E resp \in LoginResponses(logins), e \in Env :
       /\ Served(resp)
       /\ IF authenticate_raises(resp) # "none"
          THEN /\ Raise(authenticate_raises(resp))
               /\ UNCHANGED auth_token
          ELSE /\ auth_token' = authenticate_token(resp)
               /\ pc' = <<"_get_plant_list", "plant_list">>
               /\ Send(plant_list_request(
                         [Self EXCEPT !.auth_token = authenticate_token(resp)],
                         Len(log) + 1, e))
               /\ UNCHANGED <<plant_data, plants_data, idx, parts, raised,
                              outcome, result, tick, data, listed>>
  /\ UNCHANGED <<flow_vars, username, password, region, base_url,
                 monitored_plants, update_interval, sensor_vars>>

\* The plant list arrives: the loop starts.
get_plant_list ==
  /\ pc = <<"_get_plant_list", "plant_list">>
  /\ \E resp \in PlantListResponses(tick), e \in Env :
       /\ Served(resp)
       /\ IF get_raises(resp) # "none"
          THEN Raise(get_raises(resp))
          ELSE /\ ForPlant(resp.json, EmptyDict, 1, e)
               /\ listed' = plant_options(plant_list_of(resp.json))
  /\ UNCHANGED <<flow_vars, username, password, region, base_url,
                 monitored_plants, update_interval, auth_token, sensor_vars>>

\* A response of one of the plain per-plant fetches arrives: the result is
\* kept under `part` and the next method sends its first request.
Fetched(method, endpoint, part, next_pc) ==
  /\ pc = <<method, endpoint>>
  /\ \E resp \in (IF endpoint = "device_list"
                  THEN DeviceListResponses(tick)
                  ELSE BodyResponses(endpoint, monitored_plants[idx], tick)),
        e \in Env :
       /\ Served(resp)
       /\ IF get_raises(resp) # "none"
          THEN Raise(get_raises(resp))
          ELSE /\ parts' = Merge(parts, [k \in {part} |-> resp.json])
               /\ pc' = next_pc
               /\ Send(request_to(next_pc[2], Self, Len(log) + 1,
                               monitored_plants[idx], None, e))
               /\ UNCHANGED <<plant_data, plants_data, idx, raised, outcome,
                              result, tick, data, listed>>
  /\ UNCHANGED <<flow_vars, username, password, region, base_url,
                 monitored_plants, update_interval, auth_token, sensor_vars>>

\* A loop body that asks for the battery list right after the details.
get_plant_details_then_battery_list ==
  Fetched("_get_plant_details_for_plant", "plant_detail", "plant_details",
          <<"_get_battery_list_for_plant", "battery_list">>)

get_plant_details_for_plant ==
  Fetched("_get_plant_details_for_plant", "plant_detail", "plant_details",
          <<"_get_device_list_for_plant", "device_list">>)

get_device_list_for_plant ==
  Fetched("_get_device_list_for_plant", "device_list", "device_list",
          <<"_get_battery_list_for_plant", "battery_list">>)

\* A statistics method that takes the device list the loop body has fetched.
get_battery_list_then_statistics ==
  Fetched("_get_battery_list_for_plant", "battery_list", "battery_list",
          <<"_get_plant_statistics_for_plant", "plant_statistics">>)

\* _get_plant_statistics_for_plant starts with a device list request of its own.
get_battery_list_for_plant ==
  Fetched("_get_battery_list_for_plant", "battery_list", "battery_list",
          <<"_get_plant_statistics_for_plant", "device_list">>)

\* The device list a dependent method asked for arrives: it takes the first
\* device's deviceSn and sends its own request, or raises "No device found".
DeviceSn(method, endpoint) ==
  /\ pc = <<method, "device_list">>
  /\ \E resp \in DeviceListResponses(tick), e \in Env :
       /\ Served(resp)
       /\ IF get_raises(resp) # "none"
          THEN Raise(get_raises(resp))
          ELSE IF no_device(first_device_sn(resp.json))
          THEN Raise("UpdateFailed")
          ELSE /\ pc' = <<method, endpoint>>
               /\ Send(request_to(endpoint, Self, Len(log) + 1,
                               monitored_plants[idx],
                               first_device_sn(resp.json), e))
               /\ UNCHANGED <<plant_data, plants_data, idx, parts, raised,
                              outcome, result, tick, data, listed>>
  /\ UNCHANGED <<flow_vars, username, password, region, base_url,
                 monitored_plants, update_interval, auth_token, sensor_vars>>

get_plant_statistics_device_sn ==
  DeviceSn("_get_plant_statistics_for_plant", "plant_statistics")

get_plant_statistics_for_plant ==
  Fetched("_get_plant_statistics_for_plant", "plant_statistics", "plant_statistics",
          <<"_get_energy_flow_for_plant", "device_list">>)

get_energy_flow_device_sn ==
  DeviceSn("_get_energy_flow_for_plant", "energy_flow")

get_energy_flow_for_plant ==
  Fetched("_get_energy_flow_for_plant", "energy_flow", "energy_flow",
          <<"_get_battery_info_for_plant", "device_list">>)

get_battery_info_device_sn ==
  DeviceSn("_get_battery_info_for_plant", "battery_info")

\* An assignment that replaces the snapshot by the one entry.
store_only_entry(snapshot, plant_uid, entry) == [k \in {plant_uid} |-> entry]

\* plants_data[plant_uid] = {...}
store_entry(snapshot, plant_uid, entry) ==
  Merge(snapshot, [k \in {plant_uid} |-> entry])

\* An entry made before the battery info is there.
plants_data_entry_without_battery_info(fetched, battery_info) == fetched

\* The dictionary of the plant's seven results (plant_info is there from the
\* head of the loop body).
plants_data_entry(fetched, battery_info) ==
  Merge(fetched, [k \in {"battery_info"} |-> battery_info])

\* The last response of a plant arrives: its entry is stored and the loop goes on.
get_battery_info_for_plant ==
  /\ pc = <<"_get_battery_info_for_plant", "battery_info">>
  /\ \E resp \in BodyResponses("battery_info", monitored_plants[idx], tick),
        e \in Env :
       /\ Served(resp)
       /\ IF get_raises(resp) # "none"
          THEN Raise(get_raises(resp))
          ELSE /\ ForPlant(plant_data,
                           store_entry(plants_data, monitored_plants[idx],
                                       plants_data_entry(parts, resp.json)),
                           idx + 1, e)
               /\ UNCHANGED listed
  /\ UNCHANGED <<flow_vars, username, password, region, base_url,
                 monitored_plants, update_interval, auth_token, sensor_vars>>

(***************************************************************************)
(* SAJeSolarConfigFlow.                                                    *)
(***************************************************************************)
\* SAJeSolarDataUpdateCoordinator.__init__
coordinator_init(user, pass, reg, plants) ==
  /\ username' = user
  /\ password' = pass
  /\ region' = reg
  /\ base_url' = REGIONS[reg]
  /\ monitored_plants' = plants
  /\ auth_token' = None
  /\ update_interval' = UPDATE_INTERVAL
  /\ data' = None

\* return self.async_show_form(step_id=..., errors=errors)
show_form(step_id, error) ==
  /\ flow_step' = step_id
  /\ flow_errors' = error

\* The host starts the flow: async_step_user(None) shows the empty form.
async_step_user_form ==
  /\ flow_step = "init"
  /\ show_form("user", "")
  /\ UNCHANGED <<flow_username, flow_password, flow_region, flow_plants, entries,
                 submits, coord_vars, frame_vars, inflight, hist_vars, sensor_vars>>

\* The user submits the form: the credentials are kept, a coordinator is
\* built for them and its login is sent.
async_step_user ==
  /\ flow_step = "user"
  /\ submits < MaxSubmits
  /\ \E user_input \in UserInputs, e \in Env :
       /\ flow_username' = Some(user_input.username)
       /\ flow_password' = Some(user_input.password)
       /\ flow_region' = Some(user_input.region)
       /\ coordinator_init(user_input.username, user_input.password,
                           user_input.region, <<>>)
       /\ LET req == login_request(
                       [username |-> user_input.username,
                        password |-> user_input.password,
                        base_url |-> REGIONS[user_input.region],
                        auth_token |-> None], 1, e)
          IN /\ inflight' = Append(inflight, req)
             /\ log' = <<Entry(req)>>
  /\ submits' = submits + 1
  /\ flow_step' = "user/_authenticate"
  /\ UNCHANGED <<flow_plants, flow_errors, entries, frame_vars, tick,
                 raised, outcome, result, listed, stale, served, sensor_vars>>

\* The login's response arrives in the user step.
async_step_user_authenticate ==
  /\ flow_step = "user/_authenticate"
  /\ \E resp \in LoginResponses(logins), e \in Env :
       /\ Served(resp)
       /\ IF authenticate_raises(resp) # "none"
          THEN /\ show_form("user", "cannot_connect")   \* except Exception
               /\ inflight' = Answered
               /\ UNCHANGED <<auth_token, log>>
          ELSE /\ auth_token' = authenticate_token(resp)
               /\ flow_step' = "user/_get_plant_list"
               /\ Send(plant_list_request(
                         [Self EXCEPT !.auth_token = authenticate_token(resp)],
                         Len(log) + 1, e))
               /\ UNCHANGED flow_errors
  /\ UNCHANGED <<flow_username, flow_password, flow_region, flow_plants, entries,
                 submits, username, password, region, base_url, monitored_plants,
                 update_interval, data, frame_vars, tick, raised, outcome, result,
                 listed, sensor_vars>>

\* The plant lists the flow may be answered: those of the update cycle and
\* one whose plant has no name.
FlowPlantListResponses ==
  PlantListResponses(0) \cup
  {Ok([data |-> [list |-> <<[plantUid |-> "p1", fetched |-> 0]>>]])}

\* plant["plantName"], plant["plantUid"]: building the selection form's
\* options raises KeyError for a plant without one of them.
plant_options_raises(plants) ==
  \E k \in 1..Len(plants) : ~({"plantName", "plantUid"} \subseteq DOMAIN plants[k])

\* A user step that shows the selection form for any answer.
async_step_user_get_plant_list_unchecked ==
  /\ flow_step = "user/_get_plant_list"
  /\ \E resp \in FlowPlantListResponses :
       /\ Served(resp)
       /\ IF get_raises(resp) # "none"
          THEN /\ show_form("plant_selection", "")
               /\ UNCHANGED flow_plants
          ELSE /\ flow_plants' = Some(plant_list_of(resp.json))
               /\ show_form("plant_selection", "")
  /\ inflight' = Answered
  /\ UNCHANGED <<flow_username, flow_password, flow_region, entries, submits,
                 coord_vars, frame_vars, tick, log, raised, outcome, result,
                 listed, sensor_vars>>

\* The plant list arrives in the user step: the selection form is shown, or
\* the user form again.
async_step_user_get_plant_list ==
  /\ flow_step = "user/_get_plant_list"
  /\ \E resp \in FlowPlantListResponses :
       /\ Served(resp)
       /\ IF get_raises(resp) # "none"
          THEN /\ show_form("user", "cannot_connect")   \* except Exception
               /\ UNCHANGED flow_plants
          ELSE IF plant_list_of(resp.json) # <<>>
          THEN /\ flow_plants' = Some(plant_list_of(resp.json))
               /\ IF plant_options_raises(plant_list_of(resp.json))
                  THEN show_form("user", "cannot_connect")   \* except Exception
                  ELSE show_form("plant_selection", "")
          ELSE /\ show_form("user", "no_plants")
               /\ UNCHANGED flow_plants
  /\ inflight' = Answered
  /\ UNCHANGED <<flow_username, flow_password, flow_region, entries, submits,
                 coord_vars, frame_vars, tick, log, raised, outcome, result,
                 listed, sensor_vars>>

\* The selections the form's multi_select admits: lists of offered uids,
\* each at most once.
Selections ==
  LET offered == IF flow_plants = None THEN {} ELSE plant_options(flow_plants[1])
  IN {<<>>} \cup {<<p>> : p \in offered}
            \cup {s \in {<<p, q>> : p \in offered, q \in offered} : s[1] # s[2]}

\* A flow that never finds its unique id configured.
unique_id_never_configured(unique_id) == FALSE

\* self._abort_if_unique_id_configured()
unique_id_configured(unique_id) ==
  \E k \in 1..Len(entries) : entries[k].unique_id = unique_id

\* config_data and async_create_entry: the entry the flow creates.  Its
\* unique id is the one async_set_unique_id was given.
create_entry(selected_plants) ==
  [unique_id |-> flow_username[1],
   title     |-> <<"SAJ eSolar (", flow_username[1], ")">>,
   data      |-> [username |-> flow_username[1],
                  password |-> flow_password[1],
                  region   |-> flow_region[1],
                  monitored_plants |-> selected_plants]]

\* A selection step that takes any selection.
async_step_plant_selection_unchecked ==
  /\ flow_step = "plant_selection"
  /\ \E selected_plants \in Selections :
       IF FALSE
       THEN /\ show_form("plant_selection", "no_plants_selected")
            /\ UNCHANGED <<entries, coord_vars>>
       ELSE IF unique_id_configured(flow_username[1])
       THEN /\ flow_step' = "abort"
            /\ UNCHANGED <<flow_errors, entries, coord_vars>>
       ELSE /\ flow_step' = "create_entry"
            /\ entries' = Append(entries, create_entry(selected_plants))
            /\ UNCHANGED <<flow_errors, coord_vars>>
  /\ UNCHANGED <<flow_username, flow_password, flow_region, flow_plants, submits,
                 frame_vars, inflight, hist_vars, sensor_vars>>

\* The user submits the selection form: an entry is created, or the flow
\* aborts, or the form is shown again.
async_step_plant_selection ==
  /\ flow_step = "plant_selection"
  /\ \E selected_plants \in Selections :
       IF selected_plants = <<>>
       THEN /\ show_form("plant_selection", "no_plants_selected")
            /\ UNCHANGED <<entries, coord_vars>>
       ELSE IF unique_id_configured(flow_username[1])
       THEN /\ flow_step' = "abort"
            /\ UNCHANGED <<flow_errors, entries, coord_vars>>
       ELSE /\ flow_step' = "create_entry"
            /\ entries' = Append(entries, create_entry(selected_plants))
            /\ UNCHANGED <<flow_errors, coord_vars>>
  /\ UNCHANGED <<flow_username, flow_password, flow_region, flow_plants, submits,
                 frame_vars, inflight, hist_vars, sensor_vars>>

(***************************************************************************)
(* The system.                                                             *)
(***************************************************************************)
\* The entries the domain may hold when the host starts.
EntryData ==
  { [username |-> "u1", password |-> "pw1", region |-> "eu",
     monitored_plants |-> <<"p1">>],
    [username |-> "u2", password |-> "pw2", region |-> "cn",
     monitored_plants |-> <<"p2", "p1">>] }

ConfigEntry(entry_data) ==
  [unique_id |-> entry_data.username,
   title     |-> <<"SAJ eSolar (", entry_data.username, ")">>,
   data      |-> entry_data]

InitFrame ==
  /\ pc = Idle
  /\ plant_data = EmptyDict
  /\ plants_data = EmptyDict
  /\ idx = 0
  /\ parts = EmptyDict
  /\ inflight = <<>>
  /\ tick = 0
  /\ log = <<>>
  /\ raised = "none"
  /\ outcome = "none"
  /\ result = None
  /\ listed = {}
  /\ stale = 0
  /\ served = None

\* The host starts a config flow: SAJeSolarConfigFlow.__init__.  No
\* coordinator exists yet.
InitFlow ==
  /\ flow_step = "init"
  /\ flow_username = None
  /\ flow_password = None
  /\ flow_region = None
  /\ flow_plants = None
  /\ flow_errors = ""
  /\ entries \in {<<>>} \cup {<<ConfigEntry(d)>> : d \in EntryData}
  /\ submits = 0
  /\ username = None
  /\ password = None
  /\ region = None
  /\ base_url = None
  /\ monitored_plants = <<>>
  /\ auth_token = None
  /\ update_interval = UPDATE_INTERVAL
  /\ data = None
  /\ InitFrame
  /\ entity = None
  /\ state = None

\* The host sets up a config entry: SAJeSolarDataUpdateCoordinator.__init__
\* with the entry's data.  No flow is in progress.
InitEntry ==
  /\ flow_step = "none"
  /\ flow_username = None
  /\ flow_password = None
  /\ flow_region = None
  /\ flow_plants = None
  /\ flow_errors = ""
  /\ submits = 0
  /\ \E d \in EntryData :
       /\ entries = <<ConfigEntry(d)>>
       /\ username = d.username
       /\ password = d.password
       /\ region = d.region
       /\ base_url = REGIONS[d.region]
       /\ monitored_plants = d.monitored_plants
  /\ auth_token = None
  /\ update_interval = UPDATE_INTERVAL
  /\ data = None
  /\ InitFrame
  /\ entity = None
  /\ state = None

Init == InitFlow \/ InitEntry

Next ==
  \/ async_step_user_form
  \/ async_step_user
  \/ async_step_user_authenticate
  \/ async_step_user_get_plant_list
  \/ async_step_plant_selection
  \/ async_update_data
  \/ authenticate
  \/ get_plant_list
  \/ get_plant_details_for_plant
  \/ get_device_list_for_plant
  \/ get_battery_list_for_plant
  \/ get_plant_statistics_device_sn
  \/ get_plant_statistics_for_plant
  \/ get_energy_flow_device_sn
  \/ get_energy_flow_for_plant
  \/ get_battery_info_device_sn
  \/ get_battery_info_for_plant

Spec == Init /\ [][Next]_vars

\* An HTTP call returns: the coroutine awaiting its response is resumed.
Returns ==
  \/ authenticate
  \/ get_plant_list
  \/ get_plant_details_for_plant
  \/ get_device_list_for_plant
  \/ get_battery_list_for_plant
  \/ get_plant_statistics_device_sn
  \/ get_plant_statistics_for_plant
  \/ get_energy_flow_device_sn
  \/ get_energy_flow_for_plant
  \/ get_battery_info_device_sn
  \/ get_battery_info_for_plant

(***************************************************************************)
(* The sensor platform (sensor.py): the values of the vendor's JSON and    *)
(* Python's conversions of them.                                           *)
(***************************************************************************)
\* A JSON number, a JSON string (its characters) and JSON null (Python's None).
Num(n) == [num |-> n]

Str(chars) == [str |-> chars]

Null == [null |-> TRUE]

\* A float that round() left with decimals: n / per.
Dec(n, per) == [num |-> n, per |-> per]

\* A Python expression that raises.
Raises(exc) == [raises |-> exc]

IsRaise(x) == "raises" \in DOMAIN x

DigitValue ==
  ("0" :> 0) @@ ("1" :> 1) @@ ("2" :> 2) @@ ("3" :> 3) @@ ("4" :> 4) @@
  ("5" :> 5) @@ ("6" :> 6) @@ ("7" :> 7) @@ ("8" :> 8) @@ ("9" :> 9)

DigitChars == <<"0", "1", "2", "3", "4", "5", "6", "7", "8", "9">>

\* The characters of a numeral without its sign.
numeral(chars) ==
  IF chars # <<>> /\ Head(chars) = "-" THEN Tail(chars) ELSE chars

is_numeral(chars) ==
  /\ numeral(chars) # <<>>
  /\ \A i \in 1..Len(numeral(chars)) : numeral(chars)[i] \in DOMAIN DigitValue

RECURSIVE parse_digits(_, _)
parse_digits(chars, acc) ==
  IF chars = <<>> THEN acc
  ELSE parse_digits(Tail(chars), 10 * acc + DigitValue[Head(chars)])

parse_number(chars) ==
  IF Head(chars) = "-" THEN 0 - parse_digits(numeral(chars), 0)
  ELSE parse_digits(chars, 0)

\* float's infinities and its not-a-number.
Inf(sign) == [inf |-> sign]

NaN == [nan |-> TRUE]

\* The position of the decimal point of digits.digits, or 0.
RECURSIVE point_of(_, _)
point_of(chars, i) ==
  IF i > Len(chars) THEN 0
  ELSE IF chars[i] = "." THEN i
  ELSE point_of(chars, i + 1)

is_decimal(chars) ==
  LET p == point_of(numeral(chars), 1)
      n == numeral(chars)
  IN /\ p > 1
     /\ p < Len(n)
     /\ \A i \in (1..Len(n)) \ {p} : n[i] \in DOMAIN DigitValue

RECURSIVE power_of_ten(_)
power_of_ten(k) == IF k = 0 THEN 1 ELSE 10 * power_of_ten(k - 1)

parse_decimal(chars) ==
  LET n      == numeral(chars)
      p      == point_of(n, 1)
      digits == SubSeq(n, 1, p - 1) \o SubSeq(n, p + 1, Len(n))
      value  == parse_digits(digits, 0)
  IN Dec(IF Head(chars) = "-" THEN 0 - value ELSE value,
         power_of_ten(Len(n) - p))

\* float of a string: a numeral, a decimal, "nan", "inf" and "-inf" of the
\* strings float() accepts; any other string of the model is a ValueError.
parse_float(chars) ==
  IF is_numeral(chars) THEN Num(parse_number(chars))
  ELSE IF is_decimal(chars) THEN parse_decimal(chars)
  ELSE IF chars = <<"n", "a", "n">> THEN NaN
  ELSE IF chars = <<"i", "n", "f">> THEN Inf(1)
  ELSE IF chars = <<"-", "i", "n", "f">> THEN Inf(-1)
  ELSE Raises("ValueError")

\* The conversions pass on what their argument raised.
\* float(v): a number as it is, a string parsed (ValueError), None a TypeError.
float(v) ==
  IF IsRaise(v) \/ DOMAIN v \cap {"num", "inf", "nan"} # {} THEN v
  ELSE IF "str" \in DOMAIN v THEN parse_float(v.str)
  ELSE Raises("TypeError")

\* int(v): the same for the integers of the model.
int(v) ==
  IF IsRaise(v) \/ "num" \in DOMAIN v THEN v
  ELSE IF "str" \in DOMAIN v
       THEN IF is_numeral(v.str) THEN Num(parse_number(v.str))
            ELSE Raises("ValueError")
  ELSE Raises("TypeError")

RECURSIVE digits_of(_)
digits_of(n) ==
  IF n < 10 THEN <<DigitChars[n + 1]>>
  ELSE digits_of(n \div 10) \o <<DigitChars[(n % 10) + 1]>>

\* str(v)
str(v) ==
  IF IsRaise(v) \/ "str" \in DOMAIN v THEN v
  ELSE IF "num" \in DOMAIN v
       THEN IF v.num < 0 THEN Str(<<"-">> \o digits_of(0 - v.num))
            ELSE Str(digits_of(v.num))
  ELSE Str(<<"N", "o", "n", "e">>)

RECURSIVE strip_right(_, _)
strip_right(chars, c) ==
  IF chars # <<>> /\ chars[Len(chars)] = c
  THEN strip_right(SubSeq(chars, 1, Len(chars) - 1), c)
  ELSE chars

\* v.rstrip(c): only a string has the method.
rstrip(v, c) ==
  IF IsRaise(v) THEN v
  ELSE IF "str" \in DOMAIN v THEN Str(strip_right(v.str, c))
  ELSE Raises("AttributeError")

\* -x
negative(x) == IF IsRaise(x) THEN x ELSE Num(0 - x.num)

\* a / b for b > 0, to the nearest integer, a tie to the even one (round()).
round_div(a, b) ==
  LET q == a \div b
      r == a % b
  IN IF 2 * r > b \/ (2 * r = b /\ q % 2 = 1) THEN q + 1 ELSE q

\* round(x / b, digits), as a number of 10^-digits.
round_quotient(x, b, digits) ==
  LET per == IF digits = 1 THEN 10 ELSE 100
  IN IF IsRaise(x) THEN x
     ELSE IF IsRaise(b) THEN b
     ELSE Dec(round_div(x.num * per, b.num), per)

\* except (KeyError, TypeError, ValueError): return None
except_return_none(x) ==
  IF IsRaise(x) /\ x.raises \in {"KeyError", "TypeError", "ValueError"}
  THEN Null ELSE x

\* datetime.strptime(timestamp, "%d/%m/%Y %H:%M:%S"): the fields of the
\* timestamp, or ValueError.
strptime(chars) ==
  IF /\ Len(chars) = 11
     /\ <<chars[2], chars[4], chars[6], chars[8], chars[10]>>
          = <<"/", "/", " ", ":", ":">>
  THEN [datetime |-> [day |-> chars[1], month |-> chars[3], year |-> chars[5],
                      hour |-> chars[7], minute |-> chars[9],
                      second |-> chars[11], tzinfo |-> "naive"]]
  ELSE Raises("ValueError")

\* dt_util.as_utc(naive_dt)
as_utc(dt) == [datetime |-> [dt.datetime EXCEPT !.tzinfo = "UTC"]]

DIRECTION_STATES ==
  (-1 :> "Importing") @@ (0 :> "Standby") @@ (1 :> "Exporting")

BATTERY_STATES ==
  (-1 :> "Charging") @@ (0 :> "Idle") @@ (1 :> "Discharging")

\* state_map of SAJeBatterySensor.native_value
state_map == (0 :> "Offline") @@ (1 :> "Standby") @@ (2 :> "Running")

\* states.get(value, f"Unknown ({value})")
state_name(states, value, raw) ==
  IF IsRaise(value) THEN value
  ELSE IF value.num \in DOMAIN states THEN [text |-> states[value.num]]
  ELSE [unknown |-> raw]

DEVICE_CLASS_MAP ==
  [power       |-> "SensorDeviceClass.POWER",
   energy      |-> "SensorDeviceClass.ENERGY",
   battery     |-> "SensorDeviceClass.BATTERY",
   timestamp   |-> "SensorDeviceClass.TIMESTAMP",
   temperature |-> "SensorDeviceClass.TEMPERATURE",
   voltage     |-> "SensorDeviceClass.VOLTAGE"]

STATE_CLASS_MAP ==
  [measurement      |-> "SensorStateClass.MEASUREMENT",
   total_increasing |-> "SensorStateClass.TOTAL_INCREASING",
   total            |-> "SensorStateClass.TOTAL"]

\* An entry of the sensor tables: its optional device class and state class
\* (name, icon and unit play no part in what an entity computes).
Sensor(device_class, state_class) ==
  [device_class |-> device_class, state_class |-> state_class]

H1_SENSORS ==
     ("nowPower" :> Sensor(<<"power">>, <<"measurement">>))
  @@ ("todayElectricity" :> Sensor(<<"energy">>, <<"total_increasing">>))
  @@ ("monthElectricity" :> Sensor(<<"energy">>, <<"total_increasing">>))
  @@ ("yearElectricity" :> Sensor(<<"energy">>, <<"total_increasing">>))
  @@ ("totalElectricity" :> Sensor(<<"energy">>, <<"total_increasing">>))
  @@ ("totalConsumpElec" :> Sensor(<<"energy">>, <<"total_increasing">>))
  @@ ("totalBuyElec" :> Sensor(<<"energy">>, <<"total_increasing">>))
  @@ ("totalSellElec" :> Sensor(<<"energy">>, <<"total_increasing">>))
  @@ ("selfUseRate" :> Sensor(<<>>, <<"measurement">>))
  @@ ("totalPlantTreeNum" :> Sensor(<<>>, <<"total">>))
  @@ ("totalReduceCo2" :> Sensor(<<>>, <<"total">>))
  @@ ("dailyConsumption" :> Sensor(<<"energy">>, <<"total_increasing">>))
  @@ ("dailyGridImport" :> Sensor(<<"energy">>, <<"total_increasing">>))
  @@ ("dailyGridExport" :> Sensor(<<"energy">>, <<"total_increasing">>))
  @@ ("dailyBatteryCharge" :> Sensor(<<"energy">>, <<"total_increasing">>))
  @@ ("dailyBatteryDischarge" :> Sensor(<<"energy">>, <<"total_increasing">>))
  @@ ("dailyTreesPlanted" :> Sensor(<<>>, <<"total">>))
  @@ ("dailyReduceCo2" :> Sensor(<<>>, <<"total">>))
  @@ ("lastUploadTime" :> Sensor(<<"timestamp">>, <<>>))
  @@ ("pvPower" :> Sensor(<<"power">>, <<"measurement">>))
  @@ ("gridPower" :> Sensor(<<"power">>, <<"measurement">>))
  @@ ("gridPowerAbsolute" :> Sensor(<<"power">>, <<"measurement">>))
  @@ ("batteryPower" :> Sensor(<<"power">>, <<"measurement">>))
  @@ ("batteryPowerAbsolute" :> Sensor(<<"power">>, <<"measurement">>))
  @@ ("outPower" :> Sensor(<<"power">>, <<"measurement">>))
  @@ ("totalLoadPower" :> Sensor(<<"power">>, <<"measurement">>))
  @@ ("batCurr" :> Sensor(<<>>, <<"measurement">>))
  @@ ("batEnergyPercent" :> Sensor(<<"battery">>, <<"measurement">>))
  @@ ("batCapcity" :> Sensor(<<"energy_storage">>, <<>>))
  @@ ("usableBatCapacity" :> Sensor(<<"energy_storage">>, <<"measurement">>))
  @@ ("batteryWorkTime" :> Sensor(<<"duration">>, <<"measurement">>))
  @@ ("operatingMode" :> Sensor(<<>>, <<>>))
  @@ ("batVoltage" :> Sensor(<<"voltage">>, <<"measurement">>))
  @@ ("batTemperature" :> Sensor(<<"temperature">>, <<"measurement">>))
  @@ ("pvDirection" :> Sensor(<<>>, <<>>))
  @@ ("gridDirection" :> Sensor(<<>>, <<>>))
  @@ ("batteryDirection" :> Sensor(<<>>, <<>>))
  @@ ("outPutDirection" :> Sensor(<<>>, <<>>))
  @@ ("isOnline" :> Sensor(<<>>, <<>>))
  @@ ("inverterStatus" :> Sensor(<<>>, <<>>))
  @@ ("deviceModel" :> Sensor(<<>>, <<>>))
  @@ ("firmwareVersion" :> Sensor(<<>>, <<>>))
  @@ ("hardwareVersion" :> Sensor(<<>>, <<>>))
  @@ ("deviceSerialNumber" :> Sensor(<<>>, <<>>))
  @@ ("installationDate" :> Sensor(<<"timestamp">>, <<>>))
  @@ ("dcInputVoltage1" :> Sensor(<<"voltage">>, <<"measurement">>))
  @@ ("dcInputVoltage2" :> Sensor(<<"voltage">>, <<"measurement">>))
  @@ ("dcInputCurrent1" :> Sensor(<<"current">>, <<"measurement">>))
  @@ ("dcInputCurrent2" :> Sensor(<<"current">>, <<"measurement">>))
  @@ ("dcInputPower1" :> Sensor(<<"power">>, <<"measurement">>))
  @@ ("dcInputPower2" :> Sensor(<<"power">>, <<"measurement">>))
  @@ ("acOutputVoltage" :> Sensor(<<"voltage">>, <<"measurement">>))
  @@ ("acOutputCurrent" :> Sensor(<<"current">>, <<"measurement">>))
  @@ ("acOutputFrequency" :> Sensor(<<"frequency">>, <<"measurement">>))
  @@ ("inverterTemperature" :> Sensor(<<"temperature">>, <<"measurement">>))
  @@ ("deviceEfficiency" :> Sensor(<<>>, <<"measurement">>))
  @@ ("powerFactor" :> Sensor(<<"power_factor">>, <<"measurement">>))
  @@ ("gridVoltageR" :> Sensor(<<"voltage">>, <<"measurement">>))
  @@ ("gridVoltageS" :> Sensor(<<"voltage">>, <<"measurement">>))
  @@ ("gridVoltageT" :> Sensor(<<"voltage">>, <<"measurement">>))
  @@ ("gridCurrentR" :> Sensor(<<"current">>, <<"measurement">>))
  @@ ("gridCurrentS" :> Sensor(<<"current">>, <<"measurement">>))
  @@ ("gridCurrentT" :> Sensor(<<"current">>, <<"measurement">>))
  @@ ("insulationResistance" :> Sensor(<<>>, <<"measurement">>))
  @@ ("workingMode" :> Sensor(<<>>, <<>>))
  @@ ("errorCode" :> Sensor(<<>>, <<>>))
  @@ ("warningCode" :> Sensor(<<>>, <<>>))

BATTERY_SENSORS ==
     ("batSoc" :> Sensor(<<"battery">>, <<"measurement">>))
  @@ ("batTemperature" :> Sensor(<<"temperature">>, <<"measurement">>))
  @@ ("batSoh" :> Sensor(<<>>, <<"measurement">>))
  @@ ("runningState" :> Sensor(<<>>, <<>>))
  @@ ("batModel" :> Sensor(<<>>, <<>>))
  @@ ("batPower" :> Sensor(<<"power">>, <<"measurement">>))
  @@ ("batCurrent" :> Sensor(<<"current">>, <<"measurement">>))
  @@ ("batVoltage" :> Sensor(<<"voltage">>, <<"measurement">>))
  @@ ("todayBatCharge" :> Sensor(<<"energy">>, <<"total_increasing">>))
  @@ ("todayBatDischarge" :> Sensor(<<"energy">>, <<"total_increasing">>))
  @@ ("totalBatCharge" :> Sensor(<<"energy">>, <<"total_increasing">>))
  @@ ("totalBatDischarge" :> Sensor(<<"energy">>, <<"total_increasing">>))

(***************************************************************************)
(* The entities.                                                           *)
(***************************************************************************)
\* "if sensor_config[...]: self._attr_... = MAP.get(sensor_config[...])":
\* the attribute an entity gets for what its table entry declares.
class_attr(map, declared) ==
  IF declared # None /\ declared[1] \in DOMAIN map THEN Some(map[declared[1]])
  ELSE None

\* SAJeSolarSensor.__init__
SAJeSolarSensor(sensor_key, plant_uid) ==
  [class        |-> "SAJeSolarSensor",
   sensor_key   |-> sensor_key,
   plant_uid    |-> plant_uid,
   config       |-> H1_SENSORS[sensor_key],
   device_class |-> class_attr(DEVICE_CLASS_MAP, H1_SENSORS[sensor_key].device_class),
   state_class  |-> class_attr(STATE_CLASS_MAP, H1_SENSORS[sensor_key].state_class)]

\* SAJeBatterySensor.__init__
SAJeBatterySensor(sensor_key, plant_uid, battery_index) ==
  [class         |-> "SAJeBatterySensor",
   sensor_key    |-> sensor_key,
   plant_uid     |-> plant_uid,
   battery_index |-> battery_index,
   config        |-> BATTERY_SENSORS[sensor_key],
   device_class  |-> class_attr(DEVICE_CLASS_MAP,
                                BATTERY_SENSORS[sensor_key].device_class),
   state_class   |-> class_attr(STATE_CLASS_MAP,
                                BATTERY_SENSORS[sensor_key].state_class)]

\* The snapshot's entry of the first plant, whatever the plant asked for.
first_plant_data(snapshot, plant_uid) ==
  IF DOMAIN snapshot = {} THEN EmptyDict
  ELSE snapshot[CHOOSE p \in DOMAIN snapshot : TRUE]

\* plant_data = self.coordinator.data.get(self._plant_uid, {})
plant_data_of(snapshot, plant_uid) == Get(snapshot, plant_uid, EmptyDict)

\* plant_data.get(part, {}).get("data", {})
part_data(entry, part) == Get(Get(entry, part, EmptyDict), "data", EmptyDict)

\* plant_data.get(part, {}).get("data", {}).get("list", [])
part_list(entry, part) == Get(part_data(entry, part), "list", <<>>)

\* device_data = device_list[0] if device_list else {}
device_data_of(entry) ==
  IF part_list(entry, "device_list") # <<>> THEN part_list(entry, "device_list")[1]
  ELSE EmptyDict

\* The entities async_setup_entry adds for a snapshot: the H1 sensors of every
\* monitored plant, and the battery sensors of every battery of its list.
async_setup_entry(plants, snapshot) ==
  {SAJeSolarSensor(k, plants[i]) : k \in DOMAIN H1_SENSORS, i \in 1..Len(plants)}
  \cup
  UNION {{SAJeBatterySensor(k, plants[i], b - 1) :
            k \in DOMAIN BATTERY_SENSORS,
            b \in 1..Len(part_list(plant_data_of(snapshot, plants[i]),
                                   "battery_list"))} :
         i \in 1..Len(plants)}

(***************************************************************************)
(* SAJeSolarSensor.native_value and available.                             *)
(***************************************************************************)
Zero == Num(0)

\* float(d.get(field, 0))
float_of(d, field) == float(Get(d, field, Zero))

\* A grid power that is made negative when importing.
gridPower_negative_when_importing(energy_flow) ==
  LET grid_power     == float_of(energy_flow, "sysGridPowerwatt")
      grid_direction == int(Get(energy_flow, "gridDirection", Zero))
  IN IF IsRaise(grid_power) THEN grid_power
     ELSE IF IsRaise(grid_direction) THEN grid_direction
     ELSE IF grid_direction.num = -1 THEN negative(grid_power) ELSE grid_power

\* return -grid_power if int(grid_direction) == 1 else grid_power
gridPower(energy_flow) ==
  LET grid_power     == float_of(energy_flow, "sysGridPowerwatt")
      grid_direction == int(Get(energy_flow, "gridDirection", Zero))
  IN IF IsRaise(grid_power) THEN grid_power
     ELSE IF IsRaise(grid_direction) THEN grid_direction
     ELSE IF grid_direction.num = 1 THEN negative(grid_power) ELSE grid_power

\* return -bat_power if int(bat_direction) == -1 else bat_power
batteryPower(energy_flow) ==
  LET bat_power     == float_of(energy_flow, "batPower")
      bat_direction == int(Get(energy_flow, "batteryDirection", Zero))
  IN IF IsRaise(bat_power) THEN bat_power
     ELSE IF IsRaise(bat_direction) THEN bat_direction
     ELSE IF bat_direction.num = -1 THEN negative(bat_power) ELSE bat_power

\* DIRECTION_STATES.get(value, f"Unknown ({value})") for value = int(d.get(field, 0))
direction(d, field) ==
  LET value == int(Get(d, field, Zero))
  IN state_name(DIRECTION_STATES, value, value)

\* "if timestamp", "if battery_quantity": Python's truth of a JSON value.
truthy(v) == v \notin {Null, Zero, Str(<<>>)}

\* The lastUploadTime branch.
lastUploadTime(device_data) ==
  LET timestamp == Get(device_data, "firstOnlineTime", Str(<<>>))
  IN IF ~truthy(timestamp) THEN Null
     ELSE IF "str" \notin DOMAIN timestamp THEN Raises("TypeError")
     ELSE IF IsRaise(strptime(timestamp.str)) THEN Null   \* except ValueError
     ELSE as_utc(strptime(timestamp.str))

\* The batTemperature branch: the first battery of the list.
batTemperature(entry) ==
  IF part_list(entry, "battery_list") # <<>>
  THEN float(rstrip(Get(part_list(entry, "battery_list")[1], "batTemperature",
                        Str(<<"0", "degC">>)), "degC"))
  ELSE Zero

\* The body of the try of SAJeSolarSensor.native_value.
sensor_value(sensor_key, plant_entry) ==
  LET device_data  == device_data_of(plant_entry)
      plant_stats  == part_data(plant_entry, "plant_statistics")
      energy_flow  == part_data(plant_entry, "energy_flow")
      battery_info == part_data(plant_entry, "battery_info")
  IN CASE sensor_key = "nowPower"          -> float_of(device_data, "powerNow")
       [] sensor_key = "todayElectricity"  -> float_of(device_data, "todayEnergy")
       [] sensor_key = "monthElectricity"  -> float_of(device_data, "monthEnergy")
       [] sensor_key = "yearElectricity"   -> float_of(device_data, "yearEnergy")
       [] sensor_key = "totalElectricity"  -> float_of(device_data, "totalEnergy")
       [] sensor_key = "totalConsumpElec"  -> float_of(plant_stats, "totalLoadEnergy")
       [] sensor_key = "totalBuyElec"      -> float_of(plant_stats, "totalBuyEnergy")
       [] sensor_key = "totalSellElec"     -> float_of(plant_stats, "totalSellEnergy")
       [] sensor_key = "totalPlantTreeNum" -> float_of(plant_stats, "totalPlantTreeNum")
       [] sensor_key = "totalReduceCo2"    -> float_of(plant_stats, "totalReduceCo2")
       [] sensor_key = "lastUploadTime"    -> lastUploadTime(device_data)
       [] sensor_key = "selfUseRate"       ->
            float(rstrip(Get(plant_entry, "selfUseRate", Str(<<"0">>)), "%"))
       [] sensor_key = "pvPower"           -> float_of(device_data, "powerNow")
       [] sensor_key = "gridPower"         -> gridPower(energy_flow)
       [] sensor_key = "gridPowerAbsolute" -> float_of(energy_flow, "sysGridPowerwatt")
       [] sensor_key = "batteryPower"      -> batteryPower(energy_flow)
       [] sensor_key = "batteryPowerAbsolute" -> float_of(energy_flow, "batPower")
       [] sensor_key = "outPower"          -> float_of(energy_flow, "totalLoadPowerwatt")
       [] sensor_key = "totalLoadPower"    -> float_of(energy_flow, "totalLoadPowerwatt")
       [] sensor_key = "batCapcity"        -> float_of(battery_info, "batCapacity")
       [] sensor_key = "batCurr"           -> float_of(battery_info, "batCurrent")
       [] sensor_key = "batVoltage"        -> float_of(battery_info, "batVoltage")
       [] sensor_key = "usableBatCapacity" -> float_of(battery_info, "usableBatCapacity")
       [] sensor_key = "batteryWorkTime"   ->
            round_quotient(float_of(battery_info, "batteryWorkTime"), Num(60), 1)
       [] sensor_key = "operatingMode"     ->
            Get(battery_info, "userModeName", Str(<<"Unknown">>))
       [] sensor_key = "batEnergyPercent"  ->
            float(rstrip(str(Get(device_data, "batEnergyPercent", Str(<<"0">>))), "%"))
       [] sensor_key = "batteryDirection"  ->
            state_name(BATTERY_STATES,
                       int(Get(device_data, "batteryDirection", Zero)),
                       Get(device_data, "batteryDirection", Zero))
       [] sensor_key = "isOnline"          ->
            LET running_state == int(Get(device_data, "runningState", Zero))
            IN IF IsRaise(running_state) THEN running_state
               ELSE IF running_state.num = 1 THEN [text |-> "Yes"]
               ELSE [text |-> "No"]
       [] sensor_key = "dailyConsumption"  -> float_of(plant_stats, "todayLoadEnergy")
       [] sensor_key = "dailyGridImport"   -> float_of(plant_stats, "todayBuyEnergy")
       [] sensor_key = "dailyGridExport"   -> float_of(plant_stats, "todaySellEnergy")
       [] sensor_key = "dailyBatteryCharge" ->
            float(Get(plant_stats, "todayBatChgEnergy",
                      Get(device_data, "todayBatChgEnergy", Zero)))
       [] sensor_key = "dailyBatteryDischarge" ->
            float(Get(plant_stats, "todayBatDischgEnergy",
                      Get(device_data, "todayBatDisChgEnergy", Zero)))
       [] sensor_key = "dailyTreesPlanted" -> float_of(plant_stats, "todayPlantTreeNum")
       [] sensor_key = "dailyReduceCo2"    -> float_of(plant_stats, "todayReduceCo2")
       [] sensor_key = "pvDirection"       -> direction(energy_flow, "pvDirection")
       [] sensor_key = "gridDirection"     -> direction(energy_flow, "gridDirection")
       [] sensor_key = "outPutDirection"   -> direction(energy_flow, "outPutDirection")
       [] sensor_key = "batTemperature"    -> batTemperature(plant_entry)
       [] OTHER                            -> Zero   \* "sensors we haven't mapped yet"

\* SAJeSolarSensor.native_value
native_value(self, snapshot) ==
  except_return_none(sensor_value(self.sensor_key,
                                  plant_data_of(snapshot, self.plant_uid)))

\* SAJeSolarSensor.available, for coordinator.data = coordinator_data
available(self, coordinator_data) ==
  IF coordinator_data = None THEN FALSE
  ELSE LET plant_entry  == plant_data_of(coordinator_data[1], self.plant_uid)
           device_list == part_list(plant_entry, "device_list")
           running_state == int(Get(device_data_of(plant_entry), "runningState", Zero))
       IN IF device_list = <<>> THEN FALSE
          ELSE IF IsRaise(running_state) THEN FALSE      \* except: return False
          ELSE running_state.num # 0                     \* bool(int(running_state))

(***************************************************************************)
(* SAJeBatterySensor.native_value and available.                           *)
(***************************************************************************)
\* max(1, battery_quantity): a TypeError unless the quantity is a number.
at_least_one(battery_quantity) ==
  IF "num" \in DOMAIN battery_quantity
  THEN IF battery_quantity.num > 1 THEN battery_quantity ELSE Num(1)
  ELSE Raises("TypeError")

\* round(float(battery_info.get(field, 0)) / max(1, battery_quantity), digits)
per_battery(battery_info, field, digits) ==
  round_quotient(float_of(battery_info, field),
                 at_least_one(Get(battery_info, "batteryQuantity", Num(2))),
                 digits)

\* The batSoh branch: max(0, min(100, 100 - degradation)), 0 when the raw
\* value is no number.  min(100, nan) is 100, its first argument, as no
\* comparison with nan is true.
batSoh_unclamped(battery_data) ==
  LET degradation == float(Get(battery_data, "batSoh", Str(<<"0">>)))
      per         == IF "per" \in DOMAIN degradation THEN degradation.per ELSE 1
  IN IF IsRaise(degradation) THEN Zero          \* except (ValueError, TypeError)
     ELSE IF "nan" \in DOMAIN degradation THEN NaN
     ELSE IF "inf" \in DOMAIN degradation THEN Inf(0 - degradation.inf)
     ELSE IF per = 1 THEN Num(100 - degradation.num)
     ELSE Dec(100 * per - degradation.num, per)

batSoh(battery_data) ==
  LET degradation == float(Get(battery_data, "batSoh", Str(<<"0">>)))
      per         == IF "per" \in DOMAIN degradation THEN degradation.per ELSE 1
      health      == 100 * per - degradation.num
  IN IF IsRaise(degradation) THEN Zero          \* except (ValueError, TypeError)
     ELSE IF "nan" \in DOMAIN degradation THEN Num(100)
     ELSE IF "inf" \in DOMAIN degradation
          THEN IF degradation.inf = 1 THEN Zero ELSE Num(100)
     ELSE IF health > 100 * per THEN Num(100)
     ELSE IF health < 0 THEN Zero
     ELSE IF per = 1 THEN Num(health)
     ELSE Dec(health, per)

\* The mapping of SAJeBatterySensor.native_value for the battery's data.
battery_value(sensor_key, battery_data, battery_info) ==
  CASE sensor_key = "batSoc" ->
         float(rstrip(Get(battery_data, "batSoc", Str(<<"0", "%">>)), "%"))
    [] sensor_key = "batTemperature" ->
         float(rstrip(Get(battery_data, "batTemperature", Str(<<"0", "degC">>)),
                      "degC"))
    [] sensor_key = "batSoh" -> batSoh(battery_data)
    [] sensor_key = "runningState" ->
         state_name(state_map, int(Get(battery_data, "runningState", Zero)),
                    Get(battery_data, "runningState", Zero))
    [] sensor_key = "batModel" -> Get(battery_data, "batModel", Str(<<"Unknown">>))
    [] sensor_key = "batPower" -> per_battery(battery_info, "batPower", 1)
    [] sensor_key = "batCurrent" -> per_battery(battery_info, "batCurrent", 2)
    [] sensor_key = "batVoltage" -> float_of(battery_info, "batVoltage")
    [] sensor_key = "todayBatCharge" ->
         per_battery(battery_info, "todayBatChgEnergy", 2)
    [] sensor_key = "todayBatDischarge" ->
         per_battery(battery_info, "todayBatDisEnergy", 2)
    [] sensor_key = "totalBatCharge" ->
         per_battery(battery_info, "totalBatChgEnergy", 2)
    [] sensor_key = "totalBatDischarge" ->
         per_battery(battery_info, "totalBatDisEnergy", 2)
    [] OTHER -> Null

\* SAJeBatterySensor.native_value
battery_native_value(self, snapshot) ==
  LET plant_entry   == plant_data_of(snapshot, self.plant_uid)
      battery_list == part_list(plant_entry, "battery_list")
  IN IF self.battery_index < Len(battery_list)
     THEN except_return_none(
            battery_value(self.sensor_key, battery_list[self.battery_index + 1],
                          part_data(plant_entry, "battery_info")))
     ELSE Null

\* SAJeBatterySensor.available
battery_available(self, coordinator_data) ==
  IF coordinator_data = None THEN FALSE
  ELSE self.battery_index <
         Len(part_list(plant_data_of(coordinator_data[1], self.plant_uid),
                       "battery_list"))

(***************************************************************************)
(* The snapshots the entities read: what the vendor may have answered for  *)
(* a plant.  "degC" stands for the one character of the degree sign.       *)
(***************************************************************************)
OnlineDevice ==
  [runningState         |-> Num(1),
   powerNow             |-> Num(1500),
   todayEnergy          |-> Num(12),
   monthEnergy          |-> Num(300),
   yearEnergy           |-> Num(3000),
   totalEnergy          |-> Num(9000),
   firstOnlineTime      |-> Str(<<"01", "/", "02", "/", "2024", " ",
                                  "10", ":", "00", ":", "00">>),
   batEnergyPercent     |-> Str(<<"8", "5", "%">>),
   batteryDirection     |-> Num(-1),
   todayBatChgEnergy    |-> Num(4),
   todayBatDisChgEnergy |-> Num(3)]

OfflineDevice ==
  [runningState     |-> Num(0),
   powerNow         |-> Str(<<"2", "0">>),
   firstOnlineTime  |-> Str(<<"2024-02-01T10:00:00">>),
   batEnergyPercent |-> Num(40),
   batteryDirection |-> Num(1)]

MalformedDevice ==
  [runningState     |-> Null,
   powerNow         |-> Str(<<"n", "/", "a">>),
   firstOnlineTime  |-> Num(1706781600),
   batEnergyPercent |-> Null,
   batteryDirection |-> Num(3)]

Statistics ==
  [totalLoadEnergy      |-> Num(5000),
   totalBuyEnergy       |-> Num(2000),
   totalSellEnergy      |-> Num(1000),
   totalPlantTreeNum    |-> Num(7),
   totalReduceCo2       |-> Num(9),
   todayLoadEnergy      |-> Num(15),
   todayBuyEnergy       |-> Num(6),
   todaySellEnergy      |-> Num(2),
   todayBatChgEnergy    |-> Num(5),
   todayBatDischgEnergy |-> Num(4),
   todayPlantTreeNum    |-> Num(1),
   todayReduceCo2       |-> Num(3)]

BatteryInfo ==
  [batCapacity       |-> Num(10),
   batCurrent        |-> Num(25),
   batVoltage        |-> Num(52),
   usableBatCapacity |-> Num(8),
   batteryWorkTime   |-> Num(95),
   userModeName      |-> Str(<<"Self-use">>),
   batPower          |-> Num(505),
   batteryQuantity   |-> Num(2),
   todayBatChgEnergy |-> Num(5),
   todayBatDisEnergy |-> Num(3),
   totalBatChgEnergy |-> Num(701),
   totalBatDisEnergy |-> Num(650)]

MalformedBatteryInfo ==
  [batCapacity     |-> Null,
   batteryWorkTime |-> Str(<<"3", "0">>),
   batPower        |-> Num(300),
   batteryQuantity |-> Str(<<"2">>)]

Battery ==
  [batSn          |-> Str(<<"BAT1">>),
   batSoc         |-> Str(<<"8", "5", "%">>),
   batTemperature |-> Str(<<"2", "5", "degC">>),
   batSoh         |-> Str(<<"1">>),
   runningState   |-> Num(2),
   batModel       |-> Str(<<"B2-5.0">>)]

OtherBattery ==
  [batSoc         |-> Num(90),
   batTemperature |-> Str(<<"w", "a", "r", "m">>),
   batSoh         |-> Str(<<"n", "/", "a">>),
   runningState   |-> Num(5)]

\* The energy flows: a grid power with each direction the vendor may send
\* (also none and an unknown code), the battery's direction the opposite one.
EnergyFlow(power, grid_direction) ==
  [sysGridPowerwatt   |-> power,
   gridDirection      |-> Num(grid_direction),
   batPower           |-> Num(500),
   batteryDirection   |-> Num(0 - grid_direction),
   totalLoadPowerwatt |-> Num(300),
   pvDirection        |-> Num(1),
   outPutDirection    |-> Num(-1)]

EnergyFlows ==
  {EnergyFlow(Num(700), d) : d \in {-1, 0, 1, 2}} \cup
  { EmptyDict,
    [sysGridPowerwatt |-> Num(700), batPower |-> Num(500)],
    EnergyFlow(Num(0), 1),
    EnergyFlow(Str(<<"n", "/", "a">>), 1) }

\* What the vendor answers together for a plant's devices.
PlantReadings ==
  { [devices |-> <<>>, statistics |-> EmptyDict, battery_info |-> EmptyDict,
     batteries |-> <<>>],
    [devices |-> <<OnlineDevice>>, statistics |-> Statistics,
     battery_info |-> BatteryInfo, batteries |-> <<Battery, OtherBattery>>],
    [devices |-> <<OfflineDevice, OnlineDevice>>, statistics |-> EmptyDict,
     battery_info |-> BatteryInfo, batteries |-> <<OtherBattery>>],
    [devices |-> <<MalformedDevice>>, statistics |-> Statistics,
     battery_info |-> MalformedBatteryInfo, batteries |-> <<Battery>>] }

\* A battery with a raw batSoh.
SohBattery(raw) == [batSn |-> Str(<<"BAT1">>), batSoh |-> raw]

\* The raw batSoh values the vendor may send: numbers inside and outside
\* 0..100, whole and fractional, as JSON numbers and as strings, and values
\* that are no number; one battery is without the field.
SohBatteries ==
  { <<SohBattery(Num(1)), SohBattery(Num(150))>>,
    <<SohBattery(Num(-5)), SohBattery(Num(100))>>,
    <<SohBattery(Str(<<"0", ".", "5">>)), SohBattery(Dec(1005, 10))>>,
    <<SohBattery(Str(<<"n", "a", "n">>)), SohBattery(Str(<<"i", "n", "f">>))>>,
    <<SohBattery(Null), [batSn |-> Str(<<"BAT2">>)]>>,
    <<SohBattery(Str(<<"-", "i", "n", "f">>)), SohBattery(Str(<<>>))>> }

\* plants_data[plant_uid] = {...}: a plant's entry of the snapshot.
PlantEntry(plant_uid, readings, energy_flow) ==
  [plant_info       |-> [plantUid |-> plant_uid, plantName |-> plant_uid],
   plant_details    |-> [data |-> EmptyDict],
   device_list      |-> [data |-> [list |-> readings.devices]],
   battery_list     |-> [data |-> [list |-> readings.batteries]],
   plant_statistics |-> [data |-> readings.statistics],
   energy_flow      |-> [data |-> energy_flow],
   battery_info     |-> [data |-> readings.battery_info]]

\* The entries a plant may have in a snapshot, none included.
Entries(plant_uid) ==
  {None} \cup
  {Some(PlantEntry(plant_uid, r, f)) : r \in PlantReadings, f \in EnergyFlows} \cup
  {Some(PlantEntry(plant_uid,
                   [devices |-> <<OnlineDevice>>, statistics |-> EmptyDict,
                    battery_info |-> BatteryInfo, batteries |-> b],
                   EmptyDict)) : b \in SohBatteries}

\* The entries of the plants the entity does not belong to.
OtherEntries(plant_uid) ==
  { None,
    Some(PlantEntry(plant_uid, CHOOSE r \in PlantReadings : r.devices = <<OnlineDevice>>,
                    EnergyFlow(Num(700), 1))) }

\* {plant_uid: entry}, or {} for no entry.
entry_dict(plant_uid, entry) ==
  IF entry = None THEN EmptyDict ELSE [k \in {plant_uid} |-> entry[1]]

\* The snapshots of the monitored plants in which the plant of the entity
\* has any entry and the other plants a few.
RECURSIVE Snapshots(_, _)
Snapshots(plants, plant_uid) ==
  IF plants = <<>> THEN {EmptyDict}
  ELSE {Merge(rest, entry_dict(Head(plants), entry)) :
          rest \in Snapshots(Tail(plants), plant_uid),
          entry \in (IF Head(plants) = plant_uid THEN Entries(plant_uid)
                     ELSE OtherEntries(Head(plants)))}

(***************************************************************************)
(* The sensor platform as a system: the entities of a config entry, set up *)
(* after the coordinator's first refresh, report their state whenever the  *)
(* coordinator has refreshed.                                              *)
(***************************************************************************)
\* What the host records of an entity: its availability and its value.
EntityState(self, coordinator_data) ==
  IF self.class = "SAJeSolarSensor"
  THEN [available    |-> available(self, coordinator_data),
        native_value |-> native_value(self, coordinator_data[1])]
  ELSE [available    |-> battery_available(self, coordinator_data),
        native_value |-> battery_native_value(self, coordinator_data[1])]

\* async_setup_entry: the first refresh has given a snapshot, the entity
\* followed is one of those added for it, and its first state is written.
\* The first refresh's requests are not kept.
SensorInit ==
  /\ flow_step = "none"
  /\ flow_username = None
  /\ flow_password = None
  /\ flow_region = None
  /\ flow_plants = None
  /\ flow_errors = ""
  /\ submits = 0
  /\ \E d \in EntryData :
       /\ entries = <<ConfigEntry(d)>>
       /\ username = d.username
       /\ password = d.password
       /\ region = d.region
       /\ base_url = REGIONS[d.region]
       /\ monitored_plants = d.monitored_plants
  /\ auth_token = <<"Bearer ", 1>>
  /\ update_interval = UPDATE_INTERVAL
  /\ \E i \in 1..Len(monitored_plants) :
       \E snapshot \in Snapshots(monitored_plants, monitored_plants[i]) :
         /\ data = Some(snapshot)
         /\ result = Some(snapshot)
         /\ listed = DOMAIN snapshot
         /\ \E e \in async_setup_entry(monitored_plants, snapshot) :
              /\ e.plant_uid = monitored_plants[i]
              /\ entity = Some(e)
              /\ state = Some(EntityState(e, Some(snapshot)))
  /\ pc = Idle
  /\ plant_data = EmptyDict
  /\ plants_data = EmptyDict
  /\ idx = 0
  /\ parts = EmptyDict
  /\ inflight = <<>>
  /\ tick = 1
  /\ log = <<>>
  /\ raised = "none"
  /\ outcome = "ok"
  /\ stale = 0
  /\ served = None

\* The coordinator has refreshed: coordinator.data is the new snapshot and
\* the entity's state is written from its available and native_value.
coordinator_update(class) ==
  /\ entity # None
  /\ entity[1].class = class
  /\ \E snapshot \in Snapshots(monitored_plants, entity[1].plant_uid) :
       /\ data' = Some(snapshot)
       /\ result' = Some(snapshot)
       /\ listed' = DOMAIN snapshot
       /\ state' = Some(EntityState(entity[1], Some(snapshot)))
  /\ UNCHANGED <<flow_vars, username, password, region, base_url,
                 monitored_plants, auth_token, update_interval, frame_vars,
                 inflight, tick, log, raised, outcome, stale, served, entity>>

update_SAJeSolarSensor == coordinator_update("SAJeSolarSensor")

update_SAJeBatterySensor == coordinator_update("SAJeBatterySensor")

SensorNext ==
  \/ update_SAJeSolarSensor
  \/ update_SAJeBatterySensor

SensorSpec == SensorInit /\ [][SensorNext]_vars

(***************************************************************************)
(* The claims.                                                             *)
(***************************************************************************)
Range(seq) == {seq[k] : k \in 1..Len(seq)}

\* The position of a plant in the configured list.
Pos(plant_uid) ==
  CHOOSE k \in 1..Len(monitored_plants) : monitored_plants[k] = plant_uid

\* The token the vendor gave to the login of the current tick (or submission).
ThisToken == <<"Bearer ", logins>>

\* The coordinator's update cycle is the one running or last run.
Polling == flow_step = "none" /\ tick > 0

TickOver == Polling /\ pc = Idle

\* The per-plant requests as the claim lists them.
ClaimedPipeline ==
  <<"plant_detail", "device_list", "battery_list", "plant_statistics",
    "energy_flow", "battery_info">>

\* The per-plant requests with the device list lookups of the dependent methods.
PlantPipeline ==
  <<"plant_detail", "device_list", "battery_list", "device_list",
    "plant_statistics", "device_list", "energy_flow", "device_list",
    "battery_info">>

\* The tick's requests so far are: the login, the plant list, then for each
\* fetched plant, in configured order, the requests of pipeline P in order;
\* every data request carries the token of this tick's login, and only the
\* request sent last may still be unanswered.
RequestOrder(P) ==
  Polling =>
    /\ log[1].endpoint = "login"
    /\ Len(log) >= 2 => log[2].endpoint = "plant_list" /\ log[2].token = ThisToken
    /\ \A k \in 3..Len(log) :
         LET j == ((k - 3) % Len(P)) + 1
         IN /\ log[k].endpoint = P[j]
            /\ log[k].plant \in Range(monitored_plants)
            /\ log[k].token = ThisToken
            /\ j > 1 => log[k].plant = log[k - 1].plant
            /\ (j = 1 /\ k > 3) => Pos(log[k].plant) > Pos(log[k - 1].plant)
    /\ \A i \in 1..Len(inflight) : inflight[i].id = Len(log)

\* C1 as stated: in every update tick the requests are issued in the order
\* login, plant list, then per monitored plant in configured order plant
\* detail, device list, battery list, statistics, energy flow, battery info;
\* no request of a later plant before an earlier plant's requests completed,
\* no data request before the tick's login succeeded.
C1_RequestOrderAsClaimed == RequestOrder(ClaimedPipeline)

\* C1 amended: the same order, where the statistics, energy flow and battery
\* info requests are each preceded by a device list request of their own
\* (plant detail, device list, battery list, device list, statistics, device
\* list, energy flow, device list, battery info).
C1_RequestOrder == RequestOrder(PlantPipeline)

\* C1's case: a tick that fetched both monitored plants in full.
C1_Witness == TickOver /\ outcome = "ok" /\ Len(log) = 2 + 2 * Len(PlantPipeline)

\* C2: after an HTTP 401, the next data request the coordinator sends carries
\* a token of a login made after that 401 (token n is the n-th login's; stale
\* counts the logins sent when the last 401 arrived).
C2_ReauthenticatedAfter401 ==
  \A i \in 1..Len(inflight) :
    inflight[i].method = "GET" =>
      LET token == inflight[i].headers.Authorization
      IN Len(token) = 2 /\ token[2] > stale

\* C2's case: a data request in flight in a tick that follows a 401.
C2_Witness ==
  /\ Polling
  /\ stale > 0
  /\ Len(inflight) = 1
  /\ inflight[1].method = "GET"

\* C3 as stated: a tick in which all fetches of one monitored plant succeeded
\* and a fetch of another monitored plant failed still yields the snapshot
\* entry of the first.
C3_PartialFailureTolerated ==
  (TickOver /\ raised # "none" /\ Len(log) >= 3 + Len(PlantPipeline)) =>
    /\ data # None
    /\ log[3].plant \in DOMAIN data[1]
    /\ data[1][log[3].plant].battery_info.fetched = tick

\* C3 amended: the cycle tolerates a monitored plant that is missing from the
\* vendor's plant list: a tick in which nothing is raised yields an entry,
\* fetched in that tick, for every monitored plant of the list; a tick in
\* which a fetch fails yields no entry at all.
C3_MissingPlantTolerated ==
  TickOver =>
    IF raised # "none"
    THEN data = None \/ \A p \in DOMAIN data[1] : data[1][p].battery_info.fetched # tick
    ELSE \A p \in Range(monitored_plants) \cap listed :
           /\ data # None
           /\ p \in DOMAIN data[1]
           /\ data[1][p].battery_info.fetched = tick

\* C3's case: a tick that skipped a missing plant and fetched a listed one.
C3_Witness ==
  /\ TickOver
  /\ raised = "none"
  /\ Range(monitored_plants) \ listed # {}
  /\ Range(monitored_plants) \cap listed # {}

\* C4: a login the vendor rejects (ConfigEntryAuthFailed raised by
\* _authenticate) ends the tick with the outcome ConfigEntryAuthFailed.
C4_AuthFailedReported ==
  (TickOver /\ raised = "ConfigEntryAuthFailed") => outcome = "ConfigEntryAuthFailed"

\* C5 as stated: the snapshot a successful tick returns has an entry for
\* every configured monitored plant.
C5_EntryForEveryMonitoredPlant ==
  (TickOver /\ outcome = "ok") =>
    result # None /\ DOMAIN result[1] = Range(monitored_plants)

\* C5 amended: the snapshot a successful tick returns has exactly one entry
\* for each configured monitored plant that is in that tick's plant list.
C5_EntryForEveryListedMonitoredPlant ==
  (TickOver /\ outcome = "ok") =>
    result # None /\ DOMAIN result[1] = Range(monitored_plants) \cap listed

\* C5's case: a successful tick of a coordinator with two monitored plants,
\* one of them in the plant list.
C5_Witness ==
  /\ TickOver
  /\ outcome = "ok"
  /\ Len(monitored_plants) = 2
  /\ Cardinality(DOMAIN result[1]) = 1

\* C6: every tick (and every submission of the flow's user form) starts with
\* a login of its own, and every data request carries the token of that
\* login, never None and never an earlier login's token.
C6_OwnLoginOwnToken ==
  /\ log # <<>> => log[1].endpoint = "login"
  /\ \A k \in 2..Len(log) : log[k].token # None /\ log[k].token = ThisToken
  /\ \A i \in 1..Len(inflight) :
       inflight[i].method = "GET" =>
         /\ inflight[i].headers.Authorization # None
         /\ inflight[i].headers.Authorization = ThisToken

\* C6's case: the login of a later tick is in flight while the coordinator
\* holds the token of an earlier tick.
C6_Witness ==
  /\ Polling
  /\ pc = <<"_authenticate", "login">>
  /\ auth_token # None
  /\ Len(inflight) = 1
  /\ inflight[1].endpoint = "login"

\* C7: at most one request of the coordinator is in flight, and a request
\* is in flight only while it is the one sent last.
C7_OneRequestInFlight ==
  /\ Len(inflight) <= 1
  /\ \A i \in 1..Len(inflight) : inflight[i].id = Len(log)

\* C7's case: a request in flight in the middle of a plant's fetches.
C7_Witness ==
  /\ Polling
  /\ Len(inflight) = 1
  /\ inflight[1].endpoint = "energy_flow"

\* C8: the data the entities see is None (no successful tick yet) or the
\* whole snapshot the most recent successful tick returned; nothing fetched
\* in a tick that is running or that failed is in it.
C8_NoPartialSnapshot ==
  /\ data = result
  /\ (data # None /\ outcome # "ok") =>
       \A p \in DOMAIN data[1] :
         \A part \in DOMAIN data[1][p] : data[1][p][part].fetched # tick

\* C8's case: the second tick failed after it had built a plant's entry,
\* while the entities see the first tick's snapshot.
C8_Witness ==
  /\ TickOver
  /\ tick = 2
  /\ raised # "none"
  /\ Len(log) >= 3 + Len(PlantPipeline)
  /\ data # None
  /\ DOMAIN data[1] # {}

\* The parameters are the signer's output for parameters that include a
\* timestamp and a 32-character nonce.
IsSigned(params) ==
  /\ {"signParams", "signature"} \subseteq DOMAIN params
  /\ {"timeStamp", "random"} \subseteq params.signParams
  /\ params.signParams \subseteq DOMAIN params
  /\ params.signature = Signature([k \in params.signParams |-> params[k]])
  /\ Len(params.random) = 32

C11_FixedInterval == update_interval = UPDATE_INTERVAL /\ update_interval = 300

\* C11's case: a tick ended after a failed login that followed a successful tick.
C11_Witness ==
  /\ TickOver
  /\ tick = 2
  /\ result # None
  /\ outcome = "UpdateFailed"
  /\ raised = "ConfigEntryAuthFailed"

\* The entity followed is the plant sensor of one of these keys.
IsPlantSensor(keys) ==
  /\ entity # None
  /\ entity[1].class = "SAJeSolarSensor"
  /\ entity[1].sensor_key \in keys

\* Two snapshots have the same entry, or both none, for the plant.
Agree(s1, s2, plant_uid) ==
  /\ (plant_uid \in DOMAIN s1) = (plant_uid \in DOMAIN s2)
  /\ plant_uid \in DOMAIN s1 => s1[plant_uid] = s2[plant_uid]

\* C12: the value and the availability of a plant sensor or battery sensor
\* depend only on the snapshot's entry of its own plant: on every snapshot
\* that agrees with the latest one on that entry, whatever the other plants'
\* entries, native_value and available give what the entity reported.
C12_OwnPlantOnly ==
  entity # None =>
    \A other \in Snapshots(monitored_plants, entity[1].plant_uid) :
      Agree(other, data[1], entity[1].plant_uid) =>
        EntityState(entity[1], Some(other)) = state[1]

\* C12's case: the snapshot holds both plants, and the other plant's entry
\* would give the entity another state.
C12_Witness ==
  /\ entity # None
  /\ DOMAIN data[1] = {"p1", "p2"}
  /\ state[1].available
  /\ \E p \in DOMAIN data[1] :
       /\ p # entity[1].plant_uid
       /\ EntityState([entity[1] EXCEPT !.plant_uid = p], data) # state[1]

\* C13: every key of H1_SENSORS is mapped to a field of the snapshot: for the
\* plant sensor of any key there is a snapshot on which its value differs
\* from the one it reported.
C13_EveryKeyMapped ==
  IsPlantSensor(DOMAIN H1_SENSORS) =>
    \E other \in Snapshots(monitored_plants, entity[1].plant_uid) :
      native_value(entity[1], other) # state[1].native_value

\* C14: an entity whose table entry declares a device class has a device
\* class, and one whose entry declares a state class has a state class.
C14_TypedAsDeclared ==
  entity # None =>
    /\ entity[1].config.device_class # None => entity[1].device_class # None
    /\ entity[1].config.state_class # None => entity[1].state_class # None

C18_BatteryPowerSign ==
  (IsPlantSensor({"batteryPower"})
     /\ entity[1].plant_uid \in DOMAIN data[1]) =>
    LET energy_flow == data[1][entity[1].plant_uid].energy_flow.data
        magnitude   == energy_flow.batPower.num
        charging    ==
          native_value(SAJeSolarSensor("batteryDirection", entity[1].plant_uid),
                       data[1]) = [text |-> "Charging"]
    IN ("batPower" \in DOMAIN energy_flow
          /\ "num" \in DOMAIN energy_flow.batPower
          /\ magnitude > 0) =>
         IF charging
         THEN state[1].native_value = Num(0 - magnitude)
         ELSE state[1].native_value = Num(magnitude)

\* The response received last answers a request of the current tick.
ServedNow == served # None /\ served[1].tick = tick

\* The response received last is an HTTP 200 (with its JSON body).
ServedOk == ~Failed(served[1].resp) /\ served[1].resp.status = 200

\* The k-th request of a tick is the device list lookup of a dependent method.
IsLookup(k) ==
  /\ k >= 3
  /\ ((k - 3) % Len(PlantPipeline)) + 1 \in {4, 6, 8}

\* C15: a statistics, energy flow or battery info request follows, in its
\* tick, a device list request for the same plant, and the deviceSn it sends
\* is the one of the first device of that device list's response, which is
\* the response received last.
C15_DeviceSnOfPrecedingDeviceList ==
  \A i \in 1..Len(inflight) :
    inflight[i].endpoint \in {"plant_statistics", "energy_flow", "battery_info"} =>
      /\ Len(log) >= 2
      /\ log[Len(log) - 1].endpoint = "device_list"
      /\ log[Len(log) - 1].plant = inflight[i].plant
      /\ ServedNow
      /\ served[1].id = Len(log) - 1
      /\ ServedOk
      /\ inflight[i].params.deviceSn =
           Some(served[1].resp.json.data.list[1].deviceSn)

\* C15's case: an energy flow request in flight after a device list of two devices.
C15_Witness ==
  /\ Len(inflight) = 1
  /\ inflight[1].endpoint = "energy_flow"
  /\ ServedNow
  /\ served[1].endpoint = "device_list"
  /\ ServedOk
  /\ Len(served[1].resp.json.data.list) = 2

\* C16: _authenticate maps every login response to one outcome: HTTP 401
\* raises ConfigEntryAuthFailed, another status than 200 UpdateFailed, a 200
\* with a non-zero errCode ConfigEntryAuthFailed, a 200 without data.token
\* UpdateFailed; any other response succeeds and sets auth_token to
\* tokenHead + token.
C16_LoginOutcomes ==
  (Polling /\ ServedNow /\ served[1].endpoint = "login"
     /\ ~Failed(served[1].resp)) =>
    LET resp == served[1].resp
    IN IF resp.status = 401 THEN raised = "ConfigEntryAuthFailed"
       ELSE IF resp.status # 200 THEN raised = "UpdateFailed"
       ELSE IF "errCode" \in DOMAIN resp.json /\ resp.json.errCode # 0
            THEN raised = "ConfigEntryAuthFailed"
       ELSE IF ~("data" \in DOMAIN resp.json /\ "token" \in DOMAIN resp.json.data)
            THEN raised = "UpdateFailed"
       ELSE /\ raised = "none"
            /\ auth_token = resp.json.data.tokenHead \o resp.json.data.token

\* C19: a tick in which a request failed (login rejected, response other
\* than 200, network error, no device in a looked up device list) stops at
\* once: the response that failed answers the last request of the tick, no
\* request is left in flight, and what escapes is UpdateFailed.
C19_FailedTickStops ==
  (TickOver /\ raised # "none") =>
    /\ outcome = "UpdateFailed"
    /\ inflight = <<>>
    /\ ServedNow
    /\ served[1].id = Len(log)

\* C19's case: a tick of two listed plants that failed on a response of the
\* second plant's fetches.
C19_Witness ==
  /\ TickOver
  /\ raised # "none"
  /\ Len(log) > 2 + Len(PlantPipeline)
  /\ Len(log) < 2 + 2 * Len(PlantPipeline)

\* C20: a device list without devices, looked up for the statistics, energy
\* flow or battery info of a listed monitored plant, fails the tick with
\* UpdateFailed and nothing fetched in the tick is published; a monitored
\* plant that is not in the plant list gets no request, and a tick whose
\* last response (the plant list, or the last listed plant's battery info)
\* is a 200 ends well whatever plants are missing.
C20_NoDeviceFailsMissingPlantSkipped ==
  (Polling /\ ServedNow) =>
    /\ (/\ served[1].endpoint = "device_list"
        /\ IsLookup(served[1].id)
        /\ ServedOk
        /\ Get(Get(served[1].resp.json, "data", EmptyDict), "list", <<>>) = <<>>) =>
         /\ pc = Idle
         /\ outcome = "UpdateFailed"
         /\ Len(log) = served[1].id
         /\ data = None
              \/ \A p \in DOMAIN data[1] : data[1][p].battery_info.fetched # tick
    /\ \A k \in 3..Len(log) : log[k].plant \in listed
    /\ (/\ TickOver
        /\ served[1].endpoint \in {"plant_list", "battery_info"}
        /\ ServedOk) => outcome = "ok"

\* C20's case: of two monitored plants one is missing from the plant list and
\* the other's looked up device list has no device.
C20_Witness ==
  /\ TickOver
  /\ ServedNow
  /\ Range(monitored_plants) \ listed # {}
  /\ served[1].endpoint = "device_list"
  /\ IsLookup(served[1].id)
  /\ ServedOk
  /\ Get(Get(served[1].resp.json, "data", EmptyDict), "list", <<>>) = <<>>

(***************************************************************************)
(* C21: the batSoh reading of a battery sensor is always within 0..100:    *)
(* for every numeric raw value r it is 100 - r clamped to [0, 100], and    *)
(* for a raw value that is no number it is 0.  (float's nan, of which      *)
(* 100 - r has no order, reads 100 by the code's min and max.)             *)
(***************************************************************************)
\* The raw batSoh of the entity's battery in coordinator.data, if the
\* battery is there.
SohEntity ==
  /\ entity # None
  /\ entity[1].class = "SAJeBatterySensor"
  /\ entity[1].sensor_key = "batSoh"
  /\ battery_available(entity[1], data)

SohBatteryData ==
  part_list(plant_data_of(data[1], entity[1].plant_uid),
            "battery_list")[entity[1].battery_index + 1]

SohRaw == Get(SohBatteryData, "batSoh", Str(<<"0">>))

\* x <= y for the numbers n / per.
Leq(x, y) ==
  LET px == IF "per" \in DOMAIN x THEN x.per ELSE 1
      py == IF "per" \in DOMAIN y THEN y.per ELSE 1
  IN x.num * py <= y.num * px

\* The raw values that are numbers: JSON numbers and the strings of one.
IsNumeric(raw) ==
  \/ "num" \in DOMAIN raw
  \/ /\ "str" \in DOMAIN raw
     /\ \/ is_numeral(raw.str)
        \/ is_decimal(raw.str)
        \/ raw.str \in {<<"i", "n", "f">>, <<"-", "i", "n", "f">>}

IsNan(raw) == "str" \in DOMAIN raw /\ raw.str = <<"n", "a", "n">>

\* 100 - r of a numeric raw value r, as n / per, and its clamping.
Health(raw) ==
  LET r == IF "num" \in DOMAIN raw THEN raw
           ELSE IF is_numeral(raw.str) THEN Num(parse_number(raw.str))
           ELSE parse_decimal(raw.str)
  IN IF "per" \in DOMAIN r THEN Dec(100 * r.per - r.num, r.per)
     ELSE Num(100 - r.num)

Clamped(raw) ==
  IF "str" \in DOMAIN raw /\ raw.str = <<"i", "n", "f">> THEN Num(0)
  ELSE IF "str" \in DOMAIN raw /\ raw.str = <<"-", "i", "n", "f">> THEN Num(100)
  ELSE IF Leq(Health(raw), Num(0)) THEN Num(0)
  ELSE IF Leq(Num(100), Health(raw)) THEN Num(100)
  ELSE Health(raw)

Found == {i \in 1..Len(monitored_plants) : monitored_plants[i] \in listed}

\* The tick's requests to an endpoint.
Requests(endpoint) ==
  Cardinality({i \in 1..Len(log) : log[i].endpoint = endpoint})

\* What a successful tick with k plants found issues.
SuccessfulTickRequests(k) ==
  /\ Len(log) = 2 + 9 * k
  /\ Requests("login") = 1
  /\ Requests("plant_list") = 1
  /\ Requests("plant_detail") = k
  /\ Requests("device_list") = 4 * k
  /\ Requests("battery_list") = k
  /\ Requests("plant_statistics") = k
  /\ Requests("energy_flow") = k
  /\ Requests("battery_info") = k

\* The plants a failed tick would have fetched: those found in the plant
\* list, or, when the tick failed before it had one, all monitored plants.
FoundOrMonitored ==
  IF Len(log) <= 2 THEN Len(monitored_plants) ELSE Cardinality(Found)

\* As claimed: a failed tick issues fewer requests than a successful one.
C22_FailedTickIssuesFewer ==
  TickOver =>
    /\ outcome = "ok" => SuccessfulTickRequests(Cardinality(Found))
    /\ outcome # "ok" => Len(log) < 2 + 9 * FoundOrMonitored

\* As the code has it: a failed tick issues at most as many, and as many
\* only when it fails on the response to its last request, the battery
\* info of the last plant found.  A running tick ends: the response it
\* awaits resumes it, and each resumption ends the tick or issues one more
\* of its boundedly many requests.
C22_BoundedRequests ==
  /\ [](Polling => Len(log) <= 2 + 9 * Len(monitored_plants))
  /\ [](TickOver =>
          /\ outcome = "ok" => SuccessfulTickRequests(Cardinality(Found))
          /\ outcome # "ok" =>
               /\ Len(log) <= 2 + 9 * FoundOrMonitored
               /\ Len(log) = 2 + 9 * FoundOrMonitored =>
                    log[Len(log)].endpoint = "battery_info")
  /\ []((Polling /\ pc # Idle) => ENABLED Returns)
  /\ [][(Polling /\ pc # Idle) =>
          \/ pc' = Idle /\ log' = log
          \/ pc' # Idle /\ Len(log') = Len(log) + 1]_vars

\* Reached: a successful tick that fetched two plants.
C22_Witness ==
  /\ TickOver
  /\ outcome = "ok"
  /\ Cardinality(Found) = 2
  /\ Len(log) = 20

(***************************************************************************)
(* C23: every entry of a published snapshot is complete: it has the seven  *)
(* parts plant_info, plant_details, device_list, battery_list,             *)
(* plant_statistics, energy_flow and battery_info, all fetched in the same *)
(* tick; the snapshot's keys are monitored plants that were in that tick's *)
(* plant list.                                                             *)
(***************************************************************************)
SevenParts ==
  {"plant_info", "plant_details", "device_list", "battery_list",
   "plant_statistics", "energy_flow", "battery_info"}

\* The endpoint each part of an entry is the answer of (the plant list for
\* plant_info).
PartEndpoint ==
  [plant_details    |-> "plant_detail",
   battery_list     |-> "battery_list",
   plant_statistics |-> "plant_statistics",
   energy_flow      |-> "energy_flow",
   battery_info     |-> "battery_info"]

\* The snapshot is of tick t: each entry has the seven parts, each of them
\* the vendor's answer of tick t for that plant, plant_info the plant's
\* element of tick t's plant list.
SnapshotOf(snapshot, t) ==
  \A p \in DOMAIN snapshot :
    /\ p \in Range(monitored_plants)
    /\ DOMAIN snapshot[p] = SevenParts
    /\ \A part \in SevenParts : snapshot[p][part].fetched = t
    /\ snapshot[p].plant_info = Plant(p, t)
    /\ \A part \in DOMAIN PartEndpoint :
         /\ snapshot[p][part].endpoint = PartEndpoint[part]
         /\ snapshot[p][part].plantUid = p

C23_CompleteEntries ==
  /\ data # None => \E t \in 1..tick : SnapshotOf(data[1], t)
  /\ (TickOver /\ outcome = "ok") =>
       /\ SnapshotOf(data[1], tick)
       /\ DOMAIN data[1] \subseteq Range(monitored_plants) \cap listed

\* Reached: the second tick has published a snapshot of two plants.
C23_Witness ==
  /\ TickOver
  /\ outcome = "ok"
  /\ tick = 2
  /\ Cardinality(DOMAIN data[1]) = 2

(***************************************************************************)
(* C24: auth_token is modified only by a successful login: a login that    *)
(* fails in any way (401, another status than 200, a non-zero errCode, a   *)
(* missing token) leaves auth_token at its previous value, and none of the *)
(* data fetches modifies auth_token, base_url, the credentials or          *)
(* monitored_plants.                                                       *)
(***************************************************************************)
\* The coroutine awaits the response of its login, of a data fetch.
AwaitsLogin ==
  pc = <<"_authenticate", "login">> \/ flow_step = "user/_authenticate"

AwaitsFetch ==
  (pc # Idle /\ pc[2] # "login") \/ flow_step = "user/_get_plant_list"

\* The login response is a 200 without an error code that carries
\* data.tokenHead and data.token.
LoginSucceeds(resp) ==
  /\ ~Failed(resp)
  /\ resp.status = 200
  /\ "errCode" \in DOMAIN resp.json => resp.json.errCode = 0
  /\ "data" \in DOMAIN resp.json
  /\ {"tokenHead", "token"} \subseteq DOMAIN resp.json.data

\* __init__ of a new coordinator (the user step builds one per submission).
Constructs == flow_step = "user" /\ flow_step' = "user/_authenticate"

C24_TokenOnlyByLogin ==
  [][/\ (auth_token' # auth_token /\ ~Constructs) =>
          /\ AwaitsLogin
          /\ LoginSucceeds(served'[1].resp)
          /\ auth_token' = served'[1].resp.json.data.tokenHead
                              \o served'[1].resp.json.data.token
     /\ (AwaitsLogin /\ ~LoginSucceeds(served'[1].resp)) =>
          auth_token' = auth_token
     /\ AwaitsFetch =>
          /\ auth_token' = auth_token
          /\ base_url' = base_url
          /\ <<username', password', region'>> = <<username, password, region>>
          /\ monitored_plants' = monitored_plants]_vars

\* Reached: the second tick's login failed and the first tick's token is
\* still held.
C24_Witness ==
  /\ TickOver
  /\ tick = 2
  /\ Len(log) = 1
  /\ raised # "none"
  /\ auth_token = <<"Bearer ", 1>>

(***************************************************************************)
(* C25: the config flow creates an entry only after, in this order, a user *)
(* step whose login succeeded and whose plant list was not empty, and then *)
(* a plant selection step submitted with a selection that is not empty; no *)
(* other sequence of steps creates an entry.                               *)
(***************************************************************************)
\* The user step submitted last logged in and was answered a plant list
\* that is not empty, which the flow holds.
UserStepSucceeded ==
  /\ Len(log) = 2
  /\ log[1].endpoint = "login"
  /\ log[2].endpoint = "plant_list"
  /\ auth_token = ThisToken
  /\ log[2].token = ThisToken
  /\ served # None
  /\ served[1].endpoint = "plant_list"
  /\ ServedOk
  /\ plant_list_of(served[1].resp.json) # <<>>
  /\ flow_plants = Some(plant_list_of(served[1].resp.json))

C25_EntryOnlyAfterBothSteps ==
  /\ [](flow_step \in {"plant_selection", "create_entry", "abort"} =>
          UserStepSucceeded)
  /\ [][entries' # entries =>
          /\ flow_step = "plant_selection"
          /\ flow_step' = "create_entry"
          /\ UserStepSucceeded
          /\ Len(entries') = Len(entries) + 1
          /\ SubSeq(entries', 1, Len(entries)) = entries
          /\ entries'[Len(entries')].data.monitored_plants # <<>>]_vars
  /\ [](flow_step = "create_entry" =>
          entries[Len(entries)].data.monitored_plants # <<>>)

\* Reached: an entry created in a flow whose first submission had failed.
C25_Witness ==
  /\ flow_step = "create_entry"
  /\ submits = 2

(***************************************************************************)
(* C26: every failure in a step of the config flow keeps the flow at that  *)
(* step, creates no entry and allows a retry: in the user step an          *)
(* exception from the login or the plant listing shows the user form again *)
(* with "cannot_connect" and an empty plant list shows it with             *)
(* "no_plants"; in the selection step an empty selection shows the         *)
(* selection form again with "no_plants_selected".                         *)
(***************************************************************************)
\* A step of the flow has returned: a form is shown or the flow is over.
StepReturned ==
  flow_step \in {"user", "plant_selection", "create_entry", "abort"}

ShowsUserForm(error) == flow_step = "user" /\ flow_errors = error

\* The user step submitted last ended as its last response has it.
UserStepOutcome ==
  LET resp == served[1].resp
  IN IF served[1].endpoint = "login"
     THEN ~LoginSucceeds(resp) /\ ShowsUserForm("cannot_connect")
     ELSE IF Failed(resp) \/ resp.status # 200
          THEN ShowsUserForm("cannot_connect")
     ELSE IF plant_list_of(resp.json) = <<>> THEN ShowsUserForm("no_plants")
     ELSE IF \E k \in 1..Len(plant_list_of(resp.json)) :
               "plantName" \notin DOMAIN plant_list_of(resp.json)[k]
          THEN ShowsUserForm("cannot_connect")
     ELSE flow_step # "user"

C26_FailureKeepsStep ==
  /\ []((StepReturned /\ served # None) => UserStepOutcome)
  /\ []((flow_step = "user" /\ submits < MaxSubmits) => ENABLED async_step_user)
  /\ [](flow_step = "plant_selection" => ENABLED async_step_plant_selection)
  /\ [][/\ flow_step' \in {"user", "plant_selection"} => entries' = entries
        /\ (flow_step = "plant_selection" /\ flow_step' = "plant_selection") =>
             flow_errors' = "no_plants_selected"
        /\ (flow_step = "plant_selection" /\ flow_step' # "plant_selection") =>
             flow_step' \in {"create_entry", "abort"}]_vars

\* Reached: the user form shown again after a plant list without plants, in
\* a flow whose first submission could not connect.
C26_Witness ==
  /\ ShowsUserForm("no_plants")
  /\ submits = 2
  /\ entries = <<>>

(***************************************************************************)
(* C27: a created entry holds the username, password and region of the     *)
(* user step submitted last (the one whose login succeeded, not an earlier *)
(* attempt that failed) and the selected plants, which are plants of the   *)
(* list answered for those credentials; the entry's unique id is the       *)
(* username, and the flow aborts instead of creating a second entry for a  *)
(* username that is configured already.                                    *)
(***************************************************************************)
\* The entry the flow has created.
Created == entries[Len(entries)]

C27_EntryOfLastSubmission ==
  /\ [](flow_step = "create_entry" =>
          /\ UserStepSucceeded
          /\ Created.data.username = username
          /\ Created.data.password = password
          /\ Created.data.region = region
          /\ base_url = REGIONS[Created.data.region]
          /\ Created.data.monitored_plants # <<>>
          /\ Range(Created.data.monitored_plants) \subseteq
               plant_options(plant_list_of(served[1].resp.json))
          /\ Created.unique_id = Created.data.username)
  /\ [](\A i, j \in 1..Len(entries) :
          entries[i].unique_id = entries[j].unique_id => i = j)
  /\ [](flow_step = "abort" =>
          \E k \in 1..Len(entries) : entries[k].unique_id = username)
  /\ [][/\ flow_step' = "abort" => entries' = entries
        /\ (/\ flow_step = "plant_selection"
            /\ flow_step' # "plant_selection"
            /\ \E k \in 1..Len(entries) : entries[k].unique_id = username) =>
             flow_step' = "abort"]_vars

\* Reached: a second entry, for another username than the configured one,
\* created after a first submission that failed.
C27_Witness ==
  /\ flow_step = "create_entry"
  /\ Len(entries) = 2
  /\ submits = 2
  /\ Len(Created.data.monitored_plants) = 2

=============================================================================
